---- MODULE Spec2Model ----
(***************************************************************************)
(* wstcp: the per-connection WebSocket-to-TCP proxy channel.               *)
(*                                                                         *)
(* One ProxyChannel (src/src/channel.rs) with its frame codec              *)
(* (src/src/frame.rs, src/src/opcode.rs).  One action, PollLoop, is one    *)
(* iteration of the loop of ProxyChannel::poll; the results of the         *)
(* non-blocking socket calls made in it (how many bytes a read or a write  *)
(* transfers, WouldBlock, EOS, I/O error, the outcome of the connect) are  *)
(* chosen nondeterministically where the call is made.  Every function of  *)
(* the source is an operator from a channel record to the set of records   *)
(* it can return; the field ret carries the function's result.             *)
(*                                                                         *)
(* Bytes are integers: 0..255 are wire bytes of WebSocket frames, REQ_*    *)
(* stand for the bytes of the HTTP upgrade request and 10*status+i for the *)
(* i-th byte of the HTTP response with that status.                        *)
(***************************************************************************)
EXTENDS Integers, Sequences, FiniteSets, TLC

VARIABLES
    \* ProxyChannel fields (channel.rs:22-37)
    ws_rbuf, ws_wbuf, real_stream, real_stream_rstate, real_stream_wstate,
    handshake, closing, pending_pong, pending_close, frame_decoder, frame_encoder,
    \* the task: Running, Pending (poll returned Poll::Pending), Ok / Err (poll
    \* returned Poll::Ready(Ok(())) / Poll::Ready(Err(_))), Panic
    status,
    \* the peers
    cli_req,      \* the upgrade request this client sends
    cli_out,      \* the bytes this client sends on the connection (the request,
                  \* then its frames) that the proxy has not read yet
    sock_out,     \* bytes the proxy has written to the client socket
    up_read,      \* number of bytes the proxy has read from upstream (bytes 1..up_read)
    up_left,      \* number of bytes the upstream server has still to send
    up_out,       \* bytes the proxy has written to upstream
    \* history
    connects,     \* number of TcpStream::connect calls made
    resp,         \* status code of the HTTP response built, 0 before
    log,          \* in order: "done" when the handshake becomes Done, "read" for
                  \* each read of data from upstream, "tx" for each Pong or Close
                  \* whose encoding is started, "ping" for each Ping that
                  \* handle_frame accepts, "refused" when starts_closing fails,
                  \* "closing" when it succeeds, "rxclose" for each Close frame
                  \* received, "uperr", "eos", "wserr" for what starts closing,
                  \* "txfail" when start_encoding fails
    audit,        \* whether log keeps "closing", "rxclose", "uperr", "eos", "wserr",
                  \* "ioerr" and "ignored"
    plain,        \* plaintext payload bytes of the data frames the client sent
    grace,        \* loop iterations run since the closing handshake was complete
    given         \* what a codec or the handshake is given on its own, with the
                  \* progress made and the result; for a channel None, or the
                  \* size of its ws_rbuf when that is not BUF_SIZE

vars == <<ws_rbuf, ws_wbuf, real_stream, real_stream_rstate, real_stream_wstate,
          handshake, closing, pending_pong, pending_close, frame_decoder, frame_encoder,
          status, cli_req, cli_out, sock_out,
          up_read, up_left, up_out, connects, resp, log, audit, plain, grace, given>>

----------------------------------------------------------------------------
\* Bounds of the model

\* Size of ws_rbuf, ws_wbuf, the encoder's payload buffer and the decoder's
\* drain buffer: 4096 in the source (channel.rs:19, frame.rs:14, frame.rs:170),
\* scaled down here.
BUF_SIZE == 2
\* Frames one client sends
MaxFrames == 2
\* Bytes the upstream server sends
MaxUpBytes == 1
\* Bytes the upstream server sends in SpecUp
MaxUpData == 3
\* Cap of the history counter grace
MaxGrace == 3

----------------------------------------------------------------------------
\* Program constants

FIN_FLAG == 128
MASK_FLAG == 128
ContinuationFrame == 0
TextFrame == 1
BinaryFrame == 2
ConnectionClose == 8
Ping == 9
Pong == 10

\* Bytes of the HTTP request as the RequestDecoder sees them: REQ_BYTE is a
\* byte inside a request, REQ_END the byte that completes it, REQ_BAD a byte
\* the decoder rejects.
REQ_BYTE == 300
REQ_END == 301
REQ_BAD == 302

----------------------------------------------------------------------------
\* Helpers

Min(a, b) == IF a < b THEN a ELSE b

None == <<>>
Some(x) == <<x>>

Take(q, n) == SubSeq(q, 1, n)
Drop(q, n) == SubSeq(q, n + 1, Len(q))

IsPrefix(p, q) == Len(p) <= Len(q) /\ p = SubSeq(q, 1, Len(p))

RECURSIVE Xor(_, _)
Xor(a, b) == IF a = 0 THEN b ELSE IF b = 0 THEN a
             ELSE (((a % 2) + (b % 2)) % 2) + 2 * Xor(a \div 2, b \div 2)

\* BigEndian::read_u16 / read_u64 and write_u16 / write_u64 (byteorder)
RECURSIVE read_be(_)
read_be(bytes) == IF bytes = <<>> THEN 0
                  ELSE 256 * read_be(Take(bytes, Len(bytes) - 1)) + bytes[Len(bytes)]

RECURSIVE write_be(_, _)
write_be(n, width) == IF width = 0 THEN <<>>
                      ELSE Append(write_be(n \div 256, width - 1), n % 256)

----------------------------------------------------------------------------
\* bytecodec::io::ReadBuf / WriteBuf, as used at channel.rs:45-46.  buf holds
\* the bytes between head and tail; tail = head + Len(buf).

NewBuf == [buf |-> <<>>, head |-> 0, st |-> "Normal"]

buf_tail(b) == b.head + Len(b.buf)
buf_is_empty(b) == buf_tail(b) = 0
buf_room(b) == BUF_SIZE - buf_tail(b)

\* head += n; both cursors return to 0 when head reaches tail
buf_consume(b, n) ==
    IF n = Len(b.buf) THEN [b EXCEPT !.buf = <<>>, !.head = 0]
    ELSE [b EXCEPT !.buf = Drop(@, n), !.head = @ + n]

\* ReadBuf::fill(SyncReader(ws_stream)): read until the buffer is full, the
\* socket would block, or it reports EOS; an I/O error is returned.  The reads
\* return k of the bytes the client sends.  On EOS the client has closed the
\* connection; bytes read before it in the same call are never looked at, as
\* the channel ends at once (channel.rs:298), so EOS is taken with k = 0.
fill(s) ==
    LET rb == s.ws_rbuf
        room == s.ws_rbuf_size - buf_tail(rb)
        avail == Len(s.cli_out)
        Got(k, st) == [s EXCEPT !.ws_rbuf = [rb EXCEPT !.buf = @ \o Take(s.cli_out, k),
                                                       !.st = st],
                                !.cli_out = Drop(@, k), !.ret = "Ok"]
    IN  IF room = 0 THEN {[s EXCEPT !.ret = "Ok"]}
        ELSE {Got(k, IF k = room THEN "Normal" ELSE "WouldBlock") :
                 k \in 0..Min(room, avail)}
             \cup {Got(0, "Eos")}
             \cup {[s EXCEPT !.ret = "Err"]}

\* WriteBuf::flush(SyncWriter(ws_stream)): write until the buffer is empty,
\* the socket would block, or a write returns 0; an I/O error is returned.
\* A write that returns 0 after k bytes were written leaves the socket as k
\* bytes written in one call and 0 in the next: EOS is taken with k = 0.
flush(s) ==
    LET wb == s.ws_wbuf
        n == Len(wb.buf)
        Put(k, st) == [s EXCEPT !.ws_wbuf = [buf_consume(wb, k) EXCEPT !.st = st],
                                !.sock_out = @ \o Take(wb.buf, k), !.ret = "Ok"]
    IN  IF buf_is_empty(wb) THEN {[s EXCEPT !.ret = "Ok"]}
        ELSE {Put(n, "Normal")}
             \cup {Put(k, "WouldBlock") : k \in 0..(n - 1)}
             \cup {Put(0, "Eos")}
             \cup {[s EXCEPT !.ret = "Err"]}

----------------------------------------------------------------------------
\* The HTTP upgrade request and the handshake (channel.rs:60-172, 333-407)

\* str::eq_ignore_ascii_case on the header names the clients of this model use
Lower(name) ==
    CASE name \in {"Upgrade", "UPGRADE", "upgrade"} -> "upgrade"
      [] name \in {"Connection", "connection"} -> "connection"
      [] name \in {"Sec-WebSocket-Key", "sec-websocket-key"} -> "sec-websocket-key"
      [] name \in {"Sec-WebSocket-Version", "sec-websocket-version"} -> "sec-websocket-version"
      [] OTHER -> name

\* value.split(',') with each part trimmed, on the Connection values the
\* clients of this model use
SplitTrim(value) ==
    CASE value = "Upgrade" -> {"Upgrade"}
      [] value = "keep-alive, Upgrade" -> {"keep-alive", "Upgrade"}
      [] value = "keep-alive" -> {"keep-alive"}
      [] value = "upgrade" -> {"upgrade"}
      [] OTHER -> {value}

\* The loop over the header fields; key is the last Sec-WebSocket-Key seen.
RECURSIVE check_fields(_, _, _)
check_fields(fields, i, key) ==
    IF i > Len(fields) THEN [ok |-> TRUE, key |-> key]
    ELSE LET name == Lower(fields[i].name)
             value == fields[i].value
             Fail == [ok |-> FALSE, key |-> None]
         IN  IF name = "upgrade"
             THEN IF value = "websocket" THEN check_fields(fields, i + 1, key) ELSE Fail
             ELSE IF name = "connection"
             THEN IF "Upgrade" \in SplitTrim(value)
                  THEN check_fields(fields, i + 1, key) ELSE Fail
             ELSE IF name = "sec-websocket-key"
             THEN check_fields(fields, i + 1, Some(value))
             ELSE IF name = "sec-websocket-version"
             THEN IF value = "13" THEN check_fields(fields, i + 1, key) ELSE Fail
             ELSE check_fields(fields, i + 1, key)

\* ProxyChannel::handle_handshake_request: Ok(key) or Err
handle_handshake_request(request) ==
    IF request.method # "GET" THEN [ok |-> FALSE, key |-> None]
    ELSE IF request.version # "HTTP/1.1" THEN [ok |-> FALSE, key |-> None]
    ELSE LET r == check_fields(request.fields, 1, None)
         IN  IF ~r.ok THEN r
             ELSE IF r.key = None THEN [ok |-> FALSE, key |-> None]
             ELSE r

\* The bytes of the response with this status, as the ResponseEncoder emits them
RespLen == 2
response_bytes(code) == [i \in 1..RespLen |-> 10 * code + i]

Handshake_new == [tag |-> "RecvRequest", key |-> None, enc |-> <<>>, succeeded |-> FALSE]
Handshake_done == [tag |-> "Done", key |-> None, enc |-> <<>>, succeeded |-> FALSE]
response_accepted(key) ==
    [tag |-> "SendResponse", key |-> None, enc |-> response_bytes(101), succeeded |-> TRUE]
\* A 400 response that is taken for a success
response_bad_request_succeeded ==
    [tag |-> "SendResponse", key |-> None, enc |-> response_bytes(400), succeeded |-> TRUE]

response_bad_request ==
    [tag |-> "SendResponse", key |-> None, enc |-> response_bytes(400), succeeded |-> FALSE]
\* A 503 response that is taken for a success
response_unavailable_succeeded ==
    [tag |-> "SendResponse", key |-> None, enc |-> response_bytes(503), succeeded |-> TRUE]

response_unavailable ==
    [tag |-> "SendResponse", key |-> None, enc |-> response_bytes(503), succeeded |-> FALSE]

\* RequestDecoder::decode on the bytes of ws_rbuf: the number of bytes it
\* consumes and whether it is idle (a whole request decoded) or failed.
request_decode(bytes) ==
    LET stops == {i \in 1..Len(bytes) : bytes[i] # REQ_BYTE}
        i == CHOOSE j \in stops : \A k \in stops : j <= k
    IN  IF stops = {} THEN [n |-> Len(bytes), idle |-> FALSE, ok |-> TRUE]
        ELSE IF bytes[i] = REQ_END THEN [n |-> i, idle |-> TRUE, ok |-> TRUE]
        ELSE [n |-> 0, idle |-> FALSE, ok |-> FALSE]

\* ProxyChannel::process_handshake.  Each arm starts from the handshake left
\* by mem::replace(&mut self.handshake, Handshake::Done); ret is the bool
\* returned.
RECURSIVE process_handshake(_)
process_handshake(s) ==
    LET h == s.handshake
        t == [s EXCEPT !.handshake = Handshake_done]
    IN  CASE h.tag = "RecvRequest" ->
               LET d == request_decode(s.ws_rbuf.buf)
                   u == [t EXCEPT !.ws_rbuf = buf_consume(@, d.n)]
               IN  IF d.ok /\ ~d.idle
                   THEN {[u EXCEPT !.handshake = h, !.ret = "True"]}
                   ELSE IF ~d.ok
                   THEN process_handshake([t EXCEPT !.handshake = response_bad_request,
                                                    !.resp = 400])
                   ELSE LET r == handle_handshake_request(s.cli_req)
                        IN  IF ~r.ok
                            THEN process_handshake(
                                     [u EXCEPT !.handshake = response_bad_request,
                                               !.resp = 400])
                            ELSE process_handshake(
                                     [u EXCEPT !.handshake =
                                                  [tag |-> "ConnectToRealServer",
                                                   key |-> r.key, enc |-> <<>>,
                                                   succeeded |-> FALSE],
                                               !.connects = @ + 1])
          [] h.tag = "ConnectToRealServer" ->
               \* the connect future: Pending, Ready(Err), Ready(Ok(stream))
               {[t EXCEPT !.handshake = h, !.ret = "True"]}
               \cup process_handshake([t EXCEPT !.handshake = response_unavailable,
                                                !.resp = 503])
               \cup process_handshake([t EXCEPT !.handshake = response_accepted(h.key),
                                                !.real_stream = TRUE, !.resp = 101])
          [] h.tag = "SendResponse" ->
               LET n == Min(buf_room(s.ws_wbuf), Len(h.enc))
                   u == [t EXCEPT !.ws_wbuf.buf = @ \o Take(h.enc, n)]
               IN  IF n = Len(h.enc)
                   THEN IF h.succeeded
                        THEN {[u EXCEPT !.handshake = Handshake_done,
                                        !.log = Append(@, [ev |-> "done", op |-> 0,
                                                           data |-> <<>>]),
                                        !.ret = "True"]}
                        ELSE {[u EXCEPT !.ret = "False"]}
                   ELSE {[u EXCEPT !.handshake = [h EXCEPT !.enc = Drop(@, n)],
                                   !.ret = "True"]}
          [] h.tag = "Done" -> {[t EXCEPT !.ret = "True"]}

----------------------------------------------------------------------------
\* The accept hash (util.rs).  Texts that are hashed or compared are
\* sequences of ASCII codes.

\* str::as_bytes on the texts the clients and the properties of this model use
as_bytes(text) ==
    CASE text = "websocket" -> <<119, 101, 98, 115, 111, 99, 107, 101, 116>>
      [] text = "Upgrade" -> <<85, 112, 103, 114, 97, 100, 101>>
      [] text = "dGhlIHNhbXBsZSBub25jZQ==" ->
           <<100, 71, 104, 108, 73, 72, 78, 104, 98, 88, 66, 115, 90, 83, 66, 117,
             98, 50, 53, 106, 90, 81, 61, 61>>
      [] text = "x3JJHMbDL1EzLkh9GBhXDw==" ->
           <<120, 51, 74, 74, 72, 77, 98, 68, 76, 49, 69, 122, 76, 107, 104, 57,
             71, 66, 104, 88, 68, 119, 61, 61>>
      [] text = "" ->
           <<>>
      [] text = "a" ->
           <<97>>
      [] text = "AQIDBAUGBwgJCgsMDQ4PEA==" ->
           <<65, 81, 73, 68, 66, 65, 85, 71, 66, 119, 103, 74, 67, 103, 115, 77,
             68, 81, 52, 80, 69, 65, 61, 61>>
      [] text = "0123456789012345678901234567890123456789" ->
           <<48, 49, 50, 51, 52, 53, 54, 55, 56, 57, 48, 49, 50, 51, 52, 53, 54,
             55, 56, 57, 48, 49, 50, 51, 52, 53, 54, 55, 56, 57, 48, 49, 50, 51,
             52, 53, 54, 55, 56, 57>>
      [] text = "s3pPLMBiTxaQ9kYGzzhZRbK+xOo=" ->
           <<115, 51, 112, 80, 76, 77, 66, 105, 84, 120, 97, 81, 57, 107, 89, 71,
             122, 122, 104, 90, 82, 98, 75, 43, 120, 79, 111, 61>>
      [] text = "HSmrc0sMlYUkAGmm5OPpG2HaGWk=" ->
           <<72, 83, 109, 114, 99, 48, 115, 77, 108, 89, 85, 107, 65, 71, 109,
             109, 53, 79, 80, 112, 71, 50, 72, 97, 71, 87, 107, 61>>
      [] text = "Kfh9QIsMVZcl6xEPYxPHzW8SZ8w=" ->
           <<75, 102, 104, 57, 81, 73, 115, 77, 86, 90, 99, 108, 54, 120, 69, 80,
             89, 120, 80, 72, 122, 87, 56, 83, 90, 56, 119, 61>>
      [] text = "FtgH8qqfEKHvZKEZYEWkYDhlXNY=" ->
           <<70, 116, 103, 72, 56, 113, 113, 102, 69, 75, 72, 118, 90, 75, 69, 90,
             89, 69, 87, 107, 89, 68, 104, 108, 88, 78, 89, 61>>
      [] text = "C/0nmHhBztSRGR1CwL6Tf4ZjwpY=" ->
           <<67, 47, 48, 110, 109, 72, 104, 66, 122, 116, 83, 82, 71, 82, 49, 67,
             119, 76, 54, 84, 102, 52, 90, 106, 119, 112, 89, 61>>
      [] text = "XmAFJRIepQoKOqPFOfF5mREBo98=" ->
           <<88, 109, 65, 70, 74, 82, 73, 101, 112, 81, 111, 75, 79, 113, 80, 70,
             79, 102, 70, 53, 109, 82, 69, 66, 111, 57, 56, 61>>

\* util.rs:4, "258EAFA5-E914-47DA-95CA-C5AB0DC85B11"
GUID ==
    <<50, 53, 56, 69, 65, 70, 65, 53, 45, 69, 57, 49, 52, 45, 52, 55, 68,
      65, 45, 57, 53, 67, 65, 45, 67, 53, 65, 66, 48, 68, 67, 56, 53, 66,
      49, 49>>

\* 32-bit words are pairs <<high, low>> of 16-bit halves
\* a & b on the low n bits, by halves
RECURSIVE AndBits(_, _, _)
AndBits(a, b, n) ==
    IF n = 1 THEN (a % 2) * (b % 2)
    ELSE LET h == n \div 2
             p == 2 ^ h
         IN  AndBits(a % p, b % p, h) + (p * AndBits(a \div p, b \div p, n - h))

And16(a, b) == AndBits(a, b, 16)

WAnd(x, y) == <<And16(x[1], y[1]), And16(x[2], y[2])>>
WXor(x, y) == <<(x[1] + y[1]) - (2 * And16(x[1], y[1])),
                (x[2] + y[2]) - (2 * And16(x[2], y[2]))>>
WOr(x, y) == <<(x[1] + y[1]) - And16(x[1], y[1]), (x[2] + y[2]) - And16(x[2], y[2])>>
WNot(x) == <<65535 - x[1], 65535 - x[2]>>

\* u32::wrapping_add
WAdd(x, y) ==
    LET lo == x[2] + y[2]
        hi == x[1] + y[1] + (lo \div 65536)
    IN  <<hi % 65536, lo % 65536>>

\* The wrapping sum of five words
WSum(x) ==
    LET lo == x[1][2] + x[2][2] + x[3][2] + x[4][2] + x[5][2]
        hi == x[1][1] + x[2][1] + x[3][1] + x[4][1] + x[5][1] + (lo \div 65536)
    IN  <<hi % 65536, lo % 65536>>

\* u32::rotate_left(n) for 0 < n < 16, and for n = 30
Rotl(x, n) ==
    LET p == 2 ^ n
        q == 2 ^ (16 - n)
    IN  <<((x[1] * p) % 65536) + (x[2] \div q), ((x[2] * p) % 65536) + (x[1] \div q)>>

Rotl30(x) == Rotl(<<x[2], x[1]>>, 14)

\* The message with the padding of SHA-1: 0x80, zeros up to 56 mod 64, and
\* the length in bits as 8 bytes
sha1_pad(msg) ==
    LET n == Len(msg)
        zeros == (119 - (n % 64)) % 64
    IN  msg \o <<128>> \o [i \in 1..zeros |-> 0] \o write_be(8 * n, 8)

\* The 16 words of a 64-byte block
block_words(block) ==
    [i \in 1..16 |-> <<(256 * block[(4 * i) - 3]) + block[(4 * i) - 2],
                       (256 * block[(4 * i) - 1]) + block[4 * i]>>]

\* The message schedule: the words w followed by the next n words
RECURSIVE sha1_schedule(_, _)
sha1_schedule(w, n) ==
    IF Len(w) = 0 \/ n = 0 THEN w
    ELSE IF n = 1
    THEN LET t == Len(w) + 1
         IN  Append(w, Rotl(WXor(WXor(w[t - 3], w[t - 8]), WXor(w[t - 14], w[t - 16])), 1))
    ELSE sha1_schedule(sha1_schedule(w, n \div 2), n - (n \div 2))

sha1_f(t, b, c, d) ==
    IF t <= 20 THEN WOr(WAnd(b, c), WAnd(WNot(b), d))
    ELSE IF t <= 40 THEN WXor(WXor(b, c), d)
    ELSE IF t <= 60 THEN WOr(WOr(WAnd(b, c), WAnd(b, d)), WAnd(c, d))
    ELSE WXor(WXor(b, c), d)

sha1_k(t) ==
    IF t <= 20 THEN <<23170, 31129>>
    ELSE IF t <= 40 THEN <<28377, 60321>>
    ELSE IF t <= 60 THEN <<36635, 48348>>
    ELSE <<51810, 49622>>

\* One round on the working variables v = <<a, b, c, d, e>>
sha1_round(v, w, t) ==
    LET temp == WSum(<<Rotl(v[1], 5), sha1_f(t, v[2], v[3], v[4]), v[5], sha1_k(t),
                       w[t]>>)
    IN  <<temp, v[1], Rotl30(v[2]), v[3], v[4]>>

\* The rounds from..to, in order
RECURSIVE sha1_rounds(_, _, _, _)
sha1_rounds(v, w, from, to) ==
    IF Len(v) = 0 THEN v
    ELSE IF from = to THEN sha1_round(v, w, from)
    ELSE sha1_rounds(sha1_rounds(v, w, from, (from + to) \div 2), w,
                     ((from + to) \div 2) + 1, to)

\* The hash state h after the block with the schedule w of 80 words
sha1_block(h, w) ==
    IF Len(w) # 80 THEN h
    ELSE LET v == sha1_rounds(h, w, 1, 80)
         IN  <<WAdd(h[1], v[1]), WAdd(h[2], v[2]), WAdd(h[3], v[3]), WAdd(h[4], v[4]),
               WAdd(h[5], v[5])>>

\* The hash state after the blocks of bytes
RECURSIVE sha1_blocks(_, _)
sha1_blocks(h, bytes) ==
    IF Len(h) = 0 \/ bytes = <<>> THEN h
    ELSE sha1_blocks(sha1_block(h, sha1_schedule(block_words(Take(bytes, 64)), 64)),
                     Drop(bytes, 64))

sha1_initial ==
    <<<<26437, 8961>>, <<61389, 43913>>, <<39098, 56574>>, <<4146, 21622>>,
      <<50130, 57840>>>>

\* The 4 bytes of a word, high byte first
word_bytes(w) == <<w[1] \div 256, w[1] % 256, w[2] \div 256, w[2] % 256>>

\* Sha1::default(), input(bytes), result(): the 20 bytes of the digest
sha1(bytes) ==
    LET h == sha1_blocks(sha1_initial, sha1_pad(bytes))
    IN  word_bytes(h[1]) \o word_bytes(h[2]) \o word_bytes(h[3]) \o word_bytes(h[4])
        \o word_bytes(h[5])

\* The character of the standard alphabet for the 6-bit value v
base64_char(v) ==
    IF v < 26 THEN 65 + v ELSE IF v < 52 THEN 71 + v ELSE IF v < 62 THEN v - 4
    ELSE IF v = 62 THEN 43 ELSE 47

\* The 4 characters for a group of 1 to 3 bytes, with padding
base64_group(bytes) ==
    LET n == Len(bytes)
        b1 == bytes[1]
        b2 == IF n >= 2 THEN bytes[2] ELSE 0
        b3 == IF n >= 3 THEN bytes[3] ELSE 0
    IN  <<base64_char(b1 \div 4),
          base64_char((16 * (b1 % 4)) + (b2 \div 16)),
          IF n >= 2 THEN base64_char((4 * (b2 % 16)) + (b3 \div 64)) ELSE 61,
          IF n >= 3 THEN base64_char(b3 % 64) ELSE 61>>

\* base64::encode: the standard alphabet, with padding; the groups of 3
\* bytes are encoded in order
RECURSIVE base64_encode(_)
base64_encode(bytes) ==
    IF Len(bytes) = 0 THEN <<>>
    ELSE IF Len(bytes) <= 3 THEN base64_group(bytes)
    ELSE LET m == 3 * (((Len(bytes) + 2) \div 3) \div 2)
         IN  base64_encode(Take(bytes, m)) \o base64_encode(Drop(bytes, m))

\* The same with the GUID before the key
calc_accept_hash_guid_first(key) == base64_encode(sha1(GUID \o as_bytes(key)))

\* util::calc_accept_hash
calc_accept_hash(key) == base64_encode(sha1(as_bytes(key) \o GUID))

\* The header fields of the response that Handshake::response_accepted
\* builds (channel.rs:362-369)
accepted_fields(key) ==
    <<[name |-> "Upgrade", value |-> as_bytes("websocket")],
      [name |-> "Connection", value |-> as_bytes("Upgrade")],
      [name |-> "Sec-WebSocket-Accept", value |-> calc_accept_hash(key)]>>

----------------------------------------------------------------------------
\* Opcode (opcode.rs) and FrameHeader (frame.rs:24-46)

Opcodes == {ContinuationFrame, TextFrame, BinaryFrame, ConnectionClose, Ping, Pong}

\* A from_u8 that takes every value for an opcode
from_u8_any(n) == n

\* Opcode::from_u8: the opcode, or -1 for Err(InvalidInput)
from_u8(n) == IF n \in Opcodes THEN n ELSE -1

is_control(opcode) == opcode \in {ConnectionClose, Ping, Pong}

\* FrameHeader::from_bytes: mask is Some([0; 4]) when the mask bit is set
from_bytes(b) ==
    [ok |-> from_u8(b[1] % 16) # -1,
     fin_flag |-> (b[1] \div FIN_FLAG) % 2 = 1,
     opcode |-> from_u8(b[1] % 16),
     mask |-> IF (b[2] \div MASK_FLAG) % 2 = 1 THEN Some(<<0, 0, 0, 0>>) ELSE None,
     payload_len |-> b[2] % 128]

\* A Frame: kind is "Close", "Ping", "Pong" or "Data"
Frame(kind, code, data) == [kind |-> kind, code |-> code, data |-> data]

----------------------------------------------------------------------------
\* FrameEncoder (frame.rs:48-175).  header.rest are the bytes the Slice may
\* still emit (consumable_bytes = Len(rest)); header.active says that the
\* inner BytesEncoder holds a header, of which size bytes were consumable.
\* payload holds the first payload_length bytes of the staging buffer.

FrameEncoder_default ==
    [header |-> [rest |-> <<>>, size |-> 0, active |-> FALSE],
     payload |-> <<>>, payload_offset |-> 0, payload_length |-> 0]

header_is_suspended(e) == e.header.rest = <<>>
header_is_idle(e) == ~e.header.active \/ (e.header.size = 10 /\ e.header.rest = <<>>)
encoder_is_idle(e) == header_is_idle(e) /\ e.payload_length = 0

\* A header with the two-byte extended length for every payload length
header_bytes_always_extended(opcode, payload_len) ==
    <<FIN_FLAG + opcode, 126>> \o write_be(payload_len, 2)

\* The header bytes start_encoding_header builds
header_bytes(opcode, payload_len) ==
    IF payload_len < 126 THEN <<FIN_FLAG + opcode, payload_len>>
    ELSE IF payload_len < 65536 THEN <<FIN_FLAG + opcode, 126>> \o write_be(payload_len, 2)
    ELSE <<FIN_FLAG + opcode, 127>> \o write_be(payload_len, 8)

\* FrameEncoder::start_encoding_header: ok is FALSE for Err(EncoderFull)
start_encoding_header(e, opcode, payload_len) ==
    IF ~header_is_idle(e) THEN [ok |-> FALSE, e |-> e]
    ELSE [ok |-> TRUE,
          e |-> [e EXCEPT !.header = [rest |-> header_bytes(opcode, payload_len),
                                      size |-> Len(header_bytes(opcode, payload_len)),
                                      active |-> TRUE],
                          !.payload_length = payload_len]]

\* An encode that copies the payload from its start, whatever payload_offset
encode_from_start(e, room) ==
    LET n == IF header_is_suspended(e) THEN 0 ELSE Min(room, Len(e.header.rest))
        e1 == [e EXCEPT !.header.rest = Drop(@, n)]
        size == Min(room - n, e.payload_length - e.payload_offset)
        out == Take(e.header.rest, n) \o SubSeq(e.payload, 1, size)
    IN  IF ~header_is_suspended(e) /\ ~header_is_suspended(e1)
        THEN [e |-> e1, out |-> Take(e.header.rest, n)]
        ELSE IF e.payload_offset + size = e.payload_length
        THEN [e |-> FrameEncoder_default, out |-> out]
        ELSE [e |-> [e1 EXCEPT !.payload_offset = @ + size], out |-> out]

\* FrameEncoder::encode into a buffer with room bytes free: the encoder after
\* the call and the bytes written
encode(e, room) ==
    LET n == IF header_is_suspended(e) THEN 0 ELSE Min(room, Len(e.header.rest))
        e1 == [e EXCEPT !.header.rest = Drop(@, n)]
        size == Min(room - n, e.payload_length - e.payload_offset)
        out == Take(e.header.rest, n)
               \o SubSeq(e.payload, e.payload_offset + 1, e.payload_offset + size)
    IN  IF ~header_is_suspended(e) /\ ~header_is_suspended(e1)
        THEN [e |-> e1, out |-> Take(e.header.rest, n)]
        ELSE IF e.payload_offset + size = e.payload_length
        THEN [e |-> FrameEncoder_default, out |-> out]
        ELSE [e |-> [e1 EXCEPT !.payload_offset = @ + size], out |-> out]

\* A start_encoding_data that reads from the socket whatever the encoder holds
start_encoding_data_always_reads(s) ==
    LET e == s.frame_encoder
        Read(n) == LET data == [i \in 1..n |-> s.up_read + i]
                       h == start_encoding_header(e, BinaryFrame, n)
                       t == [s EXCEPT !.up_read = @ + n, !.up_left = @ - n,
                                      !.log = Append(@, [ev |-> "read", op |-> 0,
                                                         data |-> data])]
                   IN  IF ~h.ok THEN [t EXCEPT !.ret = "Err"]
                       ELSE [t EXCEPT !.frame_encoder = [h.e EXCEPT !.payload = data],
                                      !.ret = "Normal"]
    IN  {[s EXCEPT !.ret = "WouldBlock"], [s EXCEPT !.ret = "Err"],
         [s EXCEPT !.ret = "Eos"]}
        \cup {Read(n) : n \in 1..Min(BUF_SIZE, s.up_left)}

\* FrameEncoder::start_encoding_data(SyncReader(real_stream)); ret is the
\* StreamState returned, or Err.  The upstream server sends the bytes 1, 2, ...
start_encoding_data(s) ==
    LET e == s.frame_encoder
        Read(n) == LET data == [i \in 1..n |-> s.up_read + i]
                       h == start_encoding_header(e, BinaryFrame, n)
                       t == [s EXCEPT !.up_read = @ + n, !.up_left = @ - n,
                                      !.log = Append(@, [ev |-> "read", op |-> 0,
                                                         data |-> data])]
                   IN  IF ~h.ok THEN [t EXCEPT !.ret = "Err"]
                       ELSE [t EXCEPT !.frame_encoder = [h.e EXCEPT !.payload = data],
                                      !.ret = "Normal"]
    IN  IF ~encoder_is_idle(e) THEN {[s EXCEPT !.ret = "Normal"]}
        ELSE {[s EXCEPT !.ret = "WouldBlock"], [s EXCEPT !.ret = "Err"],
              [s EXCEPT !.ret = "Eos"]}
             \cup {Read(n) : n \in 1..Min(BUF_SIZE, s.up_left)}

\* The log tells that start_encoding refused item: op is 0 for EncoderFull,
\* 1 for InvalidInput and 2 for unreachable!()
Refused(s, item, why) ==
    Append(s.log, [ev |-> "txfail", op |-> why, data |-> item.data])

\* FrameEncoder::start_encoding(item) for the Frame item; ret is Ok, Err or
\* Panic (unreachable!())
start_encoding(s, item) ==
    LET e == s.frame_encoder
        Start(opcode, payload) ==
            LET h == start_encoding_header(e, opcode, Len(payload))
            IN  IF ~h.ok THEN [s EXCEPT !.log = Refused(s, item, 0), !.ret = "Err"]
                ELSE IF Len(payload) > BUF_SIZE
                THEN [s EXCEPT !.frame_encoder = h.e, !.log = Refused(s, item, 1),
                               !.ret = "Err"]
                ELSE [s EXCEPT !.frame_encoder = [h.e EXCEPT !.payload = payload],
                               !.log = Append(@, [ev |-> "tx", op |-> opcode,
                                                  data |-> payload]),
                               !.ret = "Ok"]
    IN  IF ~encoder_is_idle(e) THEN [s EXCEPT !.log = Refused(s, item, 0), !.ret = "Err"]
        ELSE CASE item.kind = "Close" -> Start(ConnectionClose,
                                               write_be(item.code, 2) \o item.data)
               [] item.kind = "Pong" -> Start(Pong, item.data)
               [] OTHER -> [s EXCEPT !.log = Refused(s, item, 2), !.ret = "Panic"]

\* IoEncodeExt::encode_to_write_buf(&mut self.ws_wbuf) of the frame encoder
encode_to_write_buf(s) ==
    LET r == encode(s.frame_encoder, buf_room(s.ws_wbuf))
    IN  [s EXCEPT !.frame_encoder = r.e, !.ws_wbuf.buf = @ \o r.out, !.ret = "Ok"]

----------------------------------------------------------------------------
\* FrameHeaderDecoder (frame.rs:177-253).  fixed and ext are the bytes the two
\* CopyableBytesDecoders hold so far; ext_size is extended_bytes.inner.size.

FrameHeaderDecoder_default ==
    [fixed |-> <<>>, ext |-> <<>>, ext_size |-> 0, header |-> None, completed |-> FALSE]

\* The size of the extended header for the header read from the fixed bytes
extended_size(header) ==
    (IF header.mask # None THEN 4 ELSE 0)
    + (CASE header.payload_len = 126 -> 2 [] header.payload_len = 127 -> 8 [] OTHER -> 0)

\* The same with the mask key taken from the first four extended bytes
extended_header_key_first(header, b) ==
    LET n == CASE header.payload_len = 126 -> 2 [] header.payload_len = 127 -> 8
               [] OTHER -> 0
    IN  [header EXCEPT !.payload_len = IF n = 0 THEN @ ELSE read_be(Take(b, n)),
                       !.mask = IF @ = None THEN None ELSE Some(Take(b, 4))]

\* The header with the extended length and the mask key filled in from the
\* extended bytes b
extended_header(header, b) ==
    LET n == CASE header.payload_len = 126 -> 2 [] header.payload_len = 127 -> 8
               [] OTHER -> 0
    IN  [header EXCEPT !.payload_len = IF n = 0 THEN @ ELSE read_be(Take(b, n)),
                       !.mask = IF @ = None THEN None ELSE Some(SubSeq(b, n + 1, n + 4))]

\* FrameHeaderDecoder::decode(buf): the decoder after the call, the number of
\* bytes consumed, and ok = FALSE for Err
header_decode(d, buf) ==
    IF d.completed THEN [d |-> d, n |-> 0, ok |-> TRUE]
    ELSE
    LET k == IF d.header = None THEN Min(2 - Len(d.fixed), Len(buf)) ELSE 0
        fixed == d.fixed \o Take(buf, k)
        parsed == from_bytes(fixed)
    IN  IF d.header = None /\ Len(fixed) < 2
        THEN [d |-> [d EXCEPT !.fixed = fixed], n |-> k, ok |-> TRUE]
        ELSE IF d.header = None /\ ~parsed.ok
        THEN [d |-> [d EXCEPT !.fixed = <<>>], n |-> 0, ok |-> FALSE]
        ELSE
        LET hdr == IF d.header = None
                   THEN [fin_flag |-> parsed.fin_flag, opcode |-> parsed.opcode,
                         mask |-> parsed.mask, payload_len |-> parsed.payload_len]
                   ELSE d.header[1]
            size == IF d.header = None THEN extended_size(hdr) ELSE d.ext_size
            m == Min(size - Len(d.ext), Len(buf) - k)
            ext == d.ext \o SubSeq(buf, k + 1, k + m)
        IN  IF Len(ext) < size
            THEN [d |-> [d EXCEPT !.fixed = <<>>, !.ext = ext, !.ext_size = size,
                                  !.header = Some(hdr)],
                  n |-> k + m, ok |-> TRUE]
            ELSE [d |-> [d EXCEPT !.fixed = <<>>, !.ext = <<>>, !.ext_size = size,
                                  !.header = Some(extended_header(hdr, ext)),
                                  !.completed = TRUE],
                  n |-> k + m, ok |-> TRUE]

\* FrameHeaderDecoder::finish_decoding, called when completed
header_finish(d) == [d EXCEPT !.header = None, !.completed = FALSE]

----------------------------------------------------------------------------
\* FramePayloadDecoder (frame.rs:255-363).  buf holds the bytes of the drain
\* buffer up to buf_end.

FramePayloadDecoder_default ==
    [buf |-> <<>>, buf_start |-> 0, buf_end |-> 0, payload_offset |-> 0,
     mask_offset |-> 0, header |-> None]

payload_is_idle(p) ==
    IF p.header # None
    THEN IF p.header[1].payload_len = p.payload_offset
         THEN IF is_control(p.header[1].opcode) THEN TRUE ELSE p.buf_start = p.buf_end
         ELSE FALSE
    ELSE FALSE

\* The same with the key applied from its first byte in every call
unmask_from_key_start(input, size, mask, mask_offset) ==
    [i \in 1..size |->
        IF mask = None THEN input[i]
        ELSE Xor(input[i], mask[1][((i - 1) % 4) + 1])]

\* The bytes input[1..size] unmasked with mask, starting at mask_offset
unmask(input, size, mask, mask_offset) ==
    [i \in 1..size |->
        IF mask = None THEN input[i]
        ELSE Xor(input[i], mask[1][((mask_offset + i - 1) % 4) + 1])]

\* header.payload_len - self.payload_offset on u64: an overflowing subtraction
\* panics (-1 here) in a build with overflow checks and wraps in one without.
\* The wrapped difference is at least 2^64 - 2^63 and is only used under min
\* with buffer lengths: Wrapped stands for it.
Wrapped == 2147483647
remaining_len(p) ==
    IF p.header[1].payload_len >= p.payload_offset
    THEN {p.header[1].payload_len - p.payload_offset}
    ELSE {-1, Wrapped}

\* FramePayloadDecoder::decode(buf): the decoders the call can leave, each
\* with the number of bytes consumed; ok = "Panic" for the overflow panic
payload_decode(p, input) ==
    IF p.header = None THEN {[p |-> p, n |-> 0, ok |-> "Ok"]}
    ELSE {IF rem = -1 THEN [p |-> p, n |-> 0, ok |-> "Panic"]
          ELSE LET size == Min(Min(rem, Len(input)), BUF_SIZE - p.buf_end)
               IN  [p |-> [p EXCEPT !.buf = @ \o unmask(input, size, p.header[1].mask,
                                                         p.mask_offset),
                                    !.buf_end = @ + size,
                                    !.payload_offset = @ + size,
                                    !.mask_offset = IF p.header[1].mask = None THEN @
                                                    ELSE (@ + size) % 4],
                    n |-> size, ok |-> "Ok"]
          : rem \in remaining_len(p)}

\* A finish_decoding without the assertion that the decoder is idle
payload_finish_unasserted(p) ==
    LET header == p.header[1]
        taken == [p EXCEPT !.header = None]
        done == [taken EXCEPT !.buf = <<>>, !.buf_start = 0, !.buf_end = 0,
                              !.payload_offset = 0, !.mask_offset = 0]
        Fail == [p |-> taken, ok |-> FALSE, frame |-> Frame("Data", 0, <<>>)]
    IN  IF p.header = None
        THEN [p |-> p, ok |-> FALSE, frame |-> Frame("Data", 0, <<>>)]
        ELSE
        CASE header.opcode = ConnectionClose ->
               IF p.buf_start # 0 \/ p.buf_end < 2 THEN Fail
               ELSE [p |-> done, ok |-> TRUE,
                     frame |-> Frame("Close", read_be(Take(p.buf, 2)), Drop(p.buf, 2))]
          [] header.opcode = Ping ->
               IF p.buf_start # 0 THEN Fail
               ELSE [p |-> done, ok |-> TRUE, frame |-> Frame("Ping", 0, p.buf)]
          [] header.opcode = Pong ->
               IF p.buf_start # 0 THEN Fail
               ELSE [p |-> done, ok |-> TRUE, frame |-> Frame("Pong", 0, p.buf)]
          [] OTHER ->
               IF p.buf_start # p.buf_end THEN Fail
               ELSE [p |-> done, ok |-> TRUE, frame |-> Frame("Data", 0, <<>>)]

\* FramePayloadDecoder::finish_decoding: the decoder after the call and the
\* Frame, or ok = FALSE for Err (the decoder is not idle, the header is
\* missing, or the buffer is not as the opcode requires)
payload_finish(p) ==
    LET header == p.header[1]
        taken == [p EXCEPT !.header = None]
        done == [taken EXCEPT !.buf = <<>>, !.buf_start = 0, !.buf_end = 0,
                              !.payload_offset = 0, !.mask_offset = 0]
        Fail == [p |-> taken, ok |-> FALSE, frame |-> Frame("Data", 0, <<>>)]
    IN  IF ~payload_is_idle(p)
        THEN [p |-> p, ok |-> FALSE, frame |-> Frame("Data", 0, <<>>)]
        ELSE
        CASE header.opcode = ConnectionClose ->
               IF p.buf_start # 0 \/ p.buf_end < 2 THEN Fail
               ELSE [p |-> done, ok |-> TRUE,
                     frame |-> Frame("Close", read_be(Take(p.buf, 2)), Drop(p.buf, 2))]
          [] header.opcode = Ping ->
               IF p.buf_start # 0 THEN Fail
               ELSE [p |-> done, ok |-> TRUE, frame |-> Frame("Ping", 0, p.buf)]
          [] header.opcode = Pong ->
               IF p.buf_start # 0 THEN Fail
               ELSE [p |-> done, ok |-> TRUE, frame |-> Frame("Pong", 0, p.buf)]
          [] OTHER ->
               IF p.buf_start # p.buf_end THEN Fail
               ELSE [p |-> done, ok |-> TRUE, frame |-> Frame("Data", 0, <<>>)]

----------------------------------------------------------------------------
\* FrameDecoder (frame.rs:365-430)

FrameDecoder_default ==
    [header |-> FrameHeaderDecoder_default, payload |-> FramePayloadDecoder_default]

\* An is_data_empty that looks at the drain window only, whatever the opcode
is_data_empty_any_opcode(d) ==
    IF d.payload.header = None THEN TRUE
    ELSE d.payload.buf_start = d.payload.buf_end

is_data_empty(d) ==
    IF d.payload.header = None THEN TRUE
    ELSE is_control(d.payload.header[1].opcode) \/ d.payload.buf_start = d.payload.buf_end

\* FrameDecoder::decode(buf): the decoders the call can leave, each with the
\* number of bytes consumed and ok in Ok, Err, Panic
frame_decode(d, input) ==
    LET h == IF d.payload.header = None /\ ~d.header.completed
             THEN header_decode(d.header, input)
             ELSE [d |-> d.header, n |-> 0, ok |-> TRUE]
        installed == [d EXCEPT !.header = header_finish(h.d),
                               !.payload.header = Some(h.d.header[1])]
        d1 == IF d.payload.header = None THEN installed ELSE d
        offset == IF d.payload.header = None THEN h.n ELSE 0
    IN  IF d.payload.header = None /\ ~h.ok
        THEN {[d |-> [d EXCEPT !.header = h.d], n |-> 0, ok |-> "Err"]}
        ELSE IF d.payload.header = None /\ ~h.d.completed
        THEN {[d |-> [d EXCEPT !.header = h.d], n |-> h.n, ok |-> "Ok"]}
        ELSE IF payload_is_idle(d1.payload)
        THEN {[d |-> d1, n |-> offset, ok |-> "Ok"]}
        ELSE {[d |-> [d1 EXCEPT !.payload = r.p],
               n |-> IF r.ok = "Ok" THEN offset + r.n ELSE 0, ok |-> r.ok]
              : r \in payload_decode(d1.payload, Drop(input, offset))}

\* IoDecodeExt::decode_from_read_buf(&mut self.ws_rbuf) of the frame decoder:
\* on Ok the bytes consumed leave ws_rbuf; on Err they stay
decode_from_read_buf(s) ==
    {[s EXCEPT !.frame_decoder = r.d, !.ws_rbuf = buf_consume(@, r.n), !.ret = r.ok]
     : r \in frame_decode(s.frame_decoder, s.ws_rbuf.buf)}

\* A write_decoded_data that leaves buf_start where it was after a partial
\* write
write_decoded_data_no_advance(s) ==
    LET p == s.frame_decoder.payload
        window == SubSeq(p.buf, p.buf_start + 1, p.buf_end)
        Wrote(size) ==
            [s EXCEPT !.up_out = @ \o Take(window, size),
                      !.frame_decoder.payload =
                          IF p.buf_start + size = p.buf_end
                          THEN [p EXCEPT !.buf = <<>>, !.buf_start = 0, !.buf_end = 0]
                          ELSE p,
                      !.ret = "Normal"]
    IN  IF is_data_empty(s.frame_decoder) THEN {[s EXCEPT !.ret = "Normal"]}
        ELSE {[s EXCEPT !.ret = "WouldBlock"], [s EXCEPT !.ret = "Err"],
              [s EXCEPT !.ret = "Eos"]}
             \cup {Wrote(size) : size \in 1..Len(window)}

\* FrameDecoder::write_decoded_data(SyncWriter(real_stream)); ret is the
\* StreamState returned, or Err
write_decoded_data(s) ==
    LET p == s.frame_decoder.payload
        window == SubSeq(p.buf, p.buf_start + 1, p.buf_end)
        Wrote(size) ==
            [s EXCEPT !.up_out = @ \o Take(window, size),
                      !.frame_decoder.payload =
                          IF p.buf_start + size = p.buf_end
                          THEN [p EXCEPT !.buf = <<>>, !.buf_start = 0, !.buf_end = 0]
                          ELSE [p EXCEPT !.buf_start = @ + size],
                      !.ret = "Normal"]
    IN  IF is_data_empty(s.frame_decoder) THEN {[s EXCEPT !.ret = "Normal"]}
        ELSE {[s EXCEPT !.ret = "WouldBlock"], [s EXCEPT !.ret = "Err"],
              [s EXCEPT !.ret = "Eos"]}
             \cup {Wrote(size) : size \in 1..Len(window)}

----------------------------------------------------------------------------
\* ProxyChannel: the relay and the closing handshake (channel.rs:174-287)

NotYet == [tag |-> "NotYet", client_closed |-> FALSE]

\* The log of s with the event e, where the closing events are kept
Audit(s, e) == IF s.audit THEN Append(s.log, e) ELSE s.log
InProgress(client_closed) == [tag |-> "InProgress", client_closed |-> client_closed]
Closed == [tag |-> "Closed", client_closed |-> FALSE]

is_not_yet(c) == c = NotYet
is_client_closed(c) == c = InProgress(TRUE)

\* A starts_closing that keeps the upstream socket
starts_closing_keeps_socket(s, code, client_closed) ==
    IF s.closing # NotYet
    THEN [s EXCEPT !.log = Append(@, [ev |-> "refused", op |-> code, data |-> <<>>]),
                   !.ret = "Err"]
    ELSE [s EXCEPT !.real_stream_rstate = "Eos",
                   !.real_stream_wstate = "Eos",
                   !.closing = InProgress(client_closed),
                   !.pending_close = Some(Frame("Close", code, <<>>)),
                   !.log = Audit(s, [ev |-> "closing", op |-> code,
                                     data |-> IF client_closed THEN <<1>> ELSE <<0>>]),
                   !.ret = "Ok"]

\* A starts_closing without the assertion that closing is NotYet
starts_closing_unguarded(s, code, client_closed) ==
    [s EXCEPT !.real_stream = FALSE,
              !.real_stream_rstate = "Eos",
              !.real_stream_wstate = "Eos",
              !.closing = InProgress(client_closed),
              !.pending_close = Some(Frame("Close", code, <<>>)),
              !.ret = "Ok"]

\* A starts_closing that leaves the states of the upstream socket as they were
starts_closing_stale_states(s, code, client_closed) ==
    IF s.closing # NotYet THEN [s EXCEPT !.ret = "Err"]
    ELSE [s EXCEPT !.real_stream = FALSE,
                   !.closing = InProgress(client_closed),
                   !.pending_close = Some(Frame("Close", code, <<>>)),
                   !.ret = "Ok"]

\* ProxyChannel::starts_closing; ret is Ok, or Err when the assertion fails
\* (the log then tells that closing with this code was refused)
starts_closing(s, code, client_closed) ==
    IF s.closing # NotYet
    THEN [s EXCEPT !.log = Append(@, [ev |-> "refused", op |-> code, data |-> <<>>]),
                   !.ret = "Err"]
    ELSE [s EXCEPT !.real_stream = FALSE,
                   !.real_stream_rstate = "Eos",
                   !.real_stream_wstate = "Eos",
                   !.closing = InProgress(client_closed),
                   !.pending_close = Some(Frame("Close", code, <<>>)),
                   !.log = Audit(s, [ev |-> "closing", op |-> code,
                                     data |-> IF client_closed THEN <<1>> ELSE <<0>>]),
                   !.ret = "Ok"]

\* The log tells which frames handle_frame received and left without effect:
\* op is the opcode of a Ping or a Pong, and 0 for Frame::Data
Ignored(s, frame) ==
    [s EXCEPT !.log = Audit(s, [ev |-> "ignored",
                                op |-> CASE frame.kind = "Ping" -> Ping
                                         [] frame.kind = "Pong" -> Pong
                                         [] OTHER -> 0,
                                data |-> frame.data])]

\* A handle_frame that answers a Close with the status 1000, whatever the
\* client's status
handle_frame_normal_closure(s, frame) ==
    CASE frame.kind = "Close" ->
           LET r == [s EXCEPT !.log = Audit(s, [ev |-> "rxclose", op |-> frame.code,
                                                data |-> frame.data])]
           IN  IF s.closing.tag = "NotYet" THEN starts_closing(r, 1000, TRUE)
               ELSE IF s.closing.tag = "InProgress"
               THEN [r EXCEPT !.closing.client_closed = TRUE, !.ret = "Ok"]
               ELSE [r EXCEPT !.ret = "Err"]
      [] frame.kind = "Ping" ->
           IF is_not_yet(s.closing)
           THEN [s EXCEPT !.pending_pong = Some(frame.data),
                          !.log = Append(@, [ev |-> "ping", op |-> Ping,
                                             data |-> frame.data]),
                          !.ret = "Ok"]
           ELSE [Ignored(s, frame) EXCEPT !.ret = "Ok"]
      [] OTHER -> [Ignored(s, frame) EXCEPT !.ret = "Ok"]

\* A handle_frame that queues a Pong for every Ping
handle_frame_pong_always(s, frame) ==
    CASE frame.kind = "Close" ->
           LET r == [s EXCEPT !.log = Audit(s, [ev |-> "rxclose", op |-> frame.code,
                                                data |-> frame.data])]
           IN  IF s.closing.tag = "NotYet" THEN starts_closing(r, frame.code, TRUE)
               ELSE IF s.closing.tag = "InProgress"
               THEN [r EXCEPT !.closing.client_closed = TRUE, !.ret = "Ok"]
               ELSE [r EXCEPT !.ret = "Err"]
      [] frame.kind = "Ping" ->
           [s EXCEPT !.pending_pong = Some(frame.data),
                     !.log = Append(@, [ev |-> "ping", op |-> Ping, data |-> frame.data]),
                     !.ret = "Ok"]
      [] OTHER -> [Ignored(s, frame) EXCEPT !.ret = "Ok"]

\* ProxyChannel::handle_frame
handle_frame(s, frame) ==
    CASE frame.kind = "Close" ->
           LET r == [s EXCEPT !.log = Audit(s, [ev |-> "rxclose", op |-> frame.code,
                                                data |-> frame.data])]
           IN  IF s.closing.tag = "NotYet" THEN starts_closing(r, frame.code, TRUE)
               ELSE IF s.closing.tag = "InProgress"
               THEN [r EXCEPT !.closing.client_closed = TRUE, !.ret = "Ok"]
               ELSE [r EXCEPT !.ret = "Err"]
      [] frame.kind = "Ping" ->
           IF is_not_yet(s.closing)
           THEN [s EXCEPT !.pending_pong = Some(frame.data),
                          !.log = Append(@, [ev |-> "ping", op |-> Ping,
                                             data |-> frame.data]),
                          !.ret = "Ok"]
           ELSE [Ignored(s, frame) EXCEPT !.ret = "Ok"]
      [] OTHER -> [Ignored(s, frame) EXCEPT !.ret = "Ok"]

\* ProxyChannel::handle_real_stream
handle_real_stream(s) ==
    IF ~s.real_stream THEN {[s EXCEPT !.ret = "Ok"]}
    ELSE UNION {
        IF a.ret = "Err" THEN {a}
        ELSE {IF b.ret = "Err" THEN [b EXCEPT !.real_stream_rstate = a.ret]
              ELSE [b EXCEPT !.real_stream_rstate = a.ret,
                             !.real_stream_wstate = b.ret, !.ret = "Ok"]
              : b \in write_decoded_data(a)}
        : a \in start_encoding_data(s)}

\* channel.rs:216-222: decode from ws_rbuf and dispatch a finished frame
ws_decode(s) ==
    {IF a.ret # "Ok" THEN a
     ELSE IF ~payload_is_idle(a.frame_decoder.payload) THEN a
     ELSE LET f == payload_finish(a.frame_decoder.payload)
              b == [a EXCEPT !.frame_decoder.payload = f.p]
          IN  IF ~f.ok THEN [b EXCEPT !.ret = "Err"] ELSE handle_frame(b, f.frame)
     : a \in decode_from_read_buf(s)}

\* channel.rs:211-214: encode into ws_wbuf; Closed once the encoder is idle
\* and the client has closed
ws_encode(s) ==
    LET a == encode_to_write_buf(s)
    IN  IF encoder_is_idle(a.frame_encoder) /\ is_client_closed(a.closing)
        THEN [a EXCEPT !.closing = Closed]
        ELSE a

\* The pending Close started at once, whatever the encoder is doing
ws_start_close_unguarded(s) ==
    IF s.pending_close # None
    THEN start_encoding([s EXCEPT !.pending_close = None,
                                  !.frame_encoder = FrameEncoder_default],
                        s.pending_close[1])
    ELSE [s EXCEPT !.ret = "Ok"]

\* channel.rs:205-209: start the pending Close when the encoder is idle
ws_start_close(s) ==
    IF encoder_is_idle(s.frame_encoder) /\ s.pending_close # None
    THEN start_encoding([s EXCEPT !.pending_close = None], s.pending_close[1])
    ELSE [s EXCEPT !.ret = "Ok"]

\* A ws_start_pong that starts the pending Pong whatever the encoder holds
ws_start_pong_unguarded(s) ==
    IF s.pending_pong # None
    THEN start_encoding([s EXCEPT !.pending_pong = None],
                        Frame("Pong", 0, s.pending_pong[1]))
    ELSE [s EXCEPT !.ret = "Ok"]

\* channel.rs:199-204: start the pending Pong when the encoder is idle
ws_start_pong(s) ==
    IF encoder_is_idle(s.frame_encoder) /\ s.pending_pong # None
    THEN start_encoding([s EXCEPT !.pending_pong = None],
                        Frame("Pong", 0, s.pending_pong[1]))
    ELSE [s EXCEPT !.ret = "Ok"]

\* A handle_ws_stream that starts the pending Close before the pending Pong
handle_ws_stream_close_first(s) ==
    LET a == ws_start_close(s)
        b == ws_start_pong(a)
    IN  IF a.ret # "Ok" THEN {a}
        ELSE IF b.ret # "Ok" THEN {b}
        ELSE ws_decode(ws_encode(b))

\* ProxyChannel::handle_ws_stream
handle_ws_stream(s) ==
    LET a == ws_start_pong(s)
        b == ws_start_close(a)
    IN  IF a.ret # "Ok" THEN {a}
        ELSE IF b.ret # "Ok" THEN {b}
        ELSE ws_decode(ws_encode(b))

is_real_stream_eos(s) == s.real_stream_rstate = "Eos" \/ s.real_stream_wstate = "Eos"

\* The log tells what made the channel start closing: "uperr" an error of
\* handle_real_stream, "eos" an upstream read or write that reported EOS,
\* "wserr" an error of handle_ws_stream
Note(s, ev) == [s EXCEPT !.log = Audit(s, [ev |-> ev, op |-> 0, data |-> <<>>])]

\* A process_relay that answers an upstream error with the status 1002
process_relay_protocol_error(s) ==
    UNION {
        LET a1 == IF a.ret = "Err" THEN starts_closing(Note(a, "uperr"), 1002, FALSE)
                  ELSE IF is_real_stream_eos(a) /\ ~is_real_stream_eos(s)
                  THEN Note(a, "eos")
                  ELSE a
        IN  IF a1.ret # "Ok" THEN {a1}
            ELSE {IF b.ret = "Err" THEN starts_closing(Note(b, "wserr"), 1002, FALSE) ELSE b
                  : b \in handle_ws_stream(a1)}
        : a \in handle_real_stream(s)}

\* ProxyChannel::process_relay; a panic ends the task where it happens
process_relay(s) ==
    UNION {
        LET a1 == IF a.ret = "Err" THEN starts_closing(Note(a, "uperr"), 1001, FALSE)
                  ELSE IF is_real_stream_eos(a) /\ ~is_real_stream_eos(s)
                  THEN Note(a, "eos")
                  ELSE a
        IN  IF a1.ret # "Ok" THEN {a1}
            ELSE {IF b.ret = "Err" THEN starts_closing(Note(b, "wserr"), 1002, FALSE) ELSE b
                  : b \in handle_ws_stream(a1)}
        : a \in handle_real_stream(s)}

is_ws_stream_eos(s) == s.ws_rbuf.st = "Eos" \/ s.ws_wbuf.st = "Eos"

would_ws_stream_block(s) ==
    LET empty_write == buf_is_empty(s.ws_wbuf) /\ s.pending_close = None
                       /\ s.pending_pong = None
    IN  s.ws_rbuf.st = "WouldBlock" /\ (empty_write \/ s.ws_wbuf.st = "WouldBlock")

would_real_stream_block(s) ==
    s.real_stream_rstate = "WouldBlock"
    /\ (is_data_empty(s.frame_decoder) \/ s.real_stream_wstate = "WouldBlock")

----------------------------------------------------------------------------
\* ProxyChannel::poll (channel.rs:292-330): one iteration of its loop.  The
\* iteration ends with status Ok or Err (poll returns Ready), Pending (poll
\* returns Pending), Panic, or Running (the loop is entered again).

Ends(s, result) == [s EXCEPT !.status = result]

\* channel.rs:320-328
poll_relay(s) ==
    {IF a.ret = "Panic" THEN Ends(a, "Panic")
     ELSE IF a.ret = "Err" THEN Ends(a, "Err")
     ELSE LET b == IF is_real_stream_eos(a) /\ is_not_yet(a.closing)
                   THEN starts_closing(a, 1000, FALSE) ELSE a
          IN  IF b.ret = "Err" THEN Ends(b, "Err")
              ELSE IF would_ws_stream_block(b) /\ would_real_stream_block(b)
              THEN Ends(b, "Pending")
              ELSE Ends(b, "Running")
     : a \in process_relay(s)}

\* The same with the relay run whatever the state of the handshake
poll_handshake_relay_early(s) ==
    UNION {
        IF a.ret = "False" THEN {Ends(a, "Ok")}
        ELSE IF a.closing = Closed THEN {Ends(a, "Ok")}
        ELSE poll_relay(a)
        : a \in process_handshake(s)}

\* channel.rs:303-318
poll_handshake(s) ==
    UNION {
        IF a.ret = "False" THEN {Ends(a, "Ok")}
        ELSE IF a.handshake.tag # "Done"
        THEN {IF would_ws_stream_block(a) THEN Ends(a, "Pending") ELSE Ends(a, "Running")}
        ELSE IF a.closing = Closed THEN {Ends(a, "Ok")}
        ELSE poll_relay(a)
        : a \in process_handshake(s)}

\* The same iteration without the test of channel.rs:298
poll_ws_io_unchecked_eos(s) ==
    UNION {
        IF a.ret = "Err" THEN {Ends(Note(a, "ioerr"), "Err")}
        ELSE UNION {
            IF b.ret = "Err" THEN {Ends(Note(b, "ioerr"), "Err")}
            ELSE poll_handshake(b)
            : b \in flush(a)}
        : a \in fill(s)}

\* channel.rs:295-301
poll_ws_io(s) ==
    UNION {
        IF a.ret = "Err" THEN {Ends(Note(a, "ioerr"), "Err")}
        ELSE UNION {
            IF b.ret = "Err" THEN {Ends(Note(b, "ioerr"), "Err")}
            ELSE IF is_ws_stream_eos(b) THEN {Ends(b, "Ok")}
            ELSE poll_handshake(b)
            : b \in flush(a)}
        : a \in fill(s)}

----------------------------------------------------------------------------
\* The client

Field(name, value) == [name |-> name, value |-> value]

\* The request of RFC 6455 section 1.2
GoodRequest ==
    [malformed |-> FALSE, method |-> "GET", version |-> "HTTP/1.1",
     fields |-> <<Field("Upgrade", "websocket"), Field("Connection", "Upgrade"),
                  Field("Sec-WebSocket-Key", "dGhlIHNhbXBsZSBub25jZQ=="),
                  Field("Sec-WebSocket-Version", "13")>>]

\* Requests that differ from it in the method, the version and each of the
\* four headers (absent, as required, or different), and a malformed one
Requests ==
    {[malformed |-> FALSE, method |-> m, version |-> v, fields |-> u \o c \o k \o w] :
        m \in {"GET", "POST"}, v \in {"HTTP/1.1", "HTTP/1.0"},
        u \in {<<>>, <<Field("Upgrade", "websocket")>>, <<Field("UPGRADE", "websocket")>>,
               <<Field("Upgrade", "WebSocket")>>},
        c \in {<<>>, <<Field("Connection", "Upgrade")>>,
               <<Field("connection", "keep-alive, Upgrade")>>,
               <<Field("Connection", "keep-alive")>>, <<Field("Connection", "upgrade")>>},
        k \in {<<>>, <<Field("Sec-WebSocket-Key", "dGhlIHNhbXBsZSBub25jZQ==")>>},
        w \in {<<>>, <<Field("Sec-WebSocket-Version", "13")>>,
               <<Field("Sec-WebSocket-Version", "8")>>}}
    \cup {[GoodRequest EXCEPT !.malformed = TRUE]}

request_bytes(request) ==
    IF request.malformed THEN <<REQ_BYTE, REQ_BAD>> ELSE <<REQ_BYTE, REQ_END>>

\* The mask key the clients use, and their first payload byte
MaskKey == <<17, 34, 51, 68>>
FirstByte == 65

\* The plaintext payload of a Close frame of len bytes: the status code
\* first, then a reason
close_payload(code, len, next) ==
    Take(write_be(code, 2) \o [i \in 1..len |-> next + i - 1], len)

\* The plaintext payload of the client's next frame: a Close frame carries
\* the status code 1000 first
client_payload(opcode, len, next) ==
    IF opcode = ConnectionClose
    THEN close_payload(1000, len, next)
    ELSE [i \in 1..len |-> next + i - 1]

\* The plaintext payload of the frame f of a script
frame_payload(f, next) ==
    IF f.op = ConnectionClose THEN close_payload(f.code, f.len, next)
    ELSE client_payload(f.op, f.len, next)

\* The bytes of a masked frame as a client sends it (RFC 6455 section 5.2)
client_frame(opcode, mask, payload) ==
    <<FIN_FLAG + opcode, MASK_FLAG + Len(payload)>> \o mask
    \o [i \in 1..Len(payload) |-> Xor(payload[i], mask[((i - 1) % 4) + 1])]

\* A script is the sequence of frames a client sends, each [op, len, code]; its
\* payload bytes are FirstByte, FirstByte + 1, ... in the order sent.
Scripts(menu, n) == UNION {[1..k -> menu] : k \in 0..n}

\* Those that send no frame of the menu twice
DistinctScripts(menu, n) ==
    {fs \in Scripts(menu, n) : \A i, j \in 1..Len(fs) : fs[i] = fs[j] => i = j}

\* The masking key of the frame f of a script: MaskKey unless f names one
frame_key(f) == IF "key" \in DOMAIN f THEN f.key ELSE MaskKey

RECURSIVE script_bytes(_, _)
script_bytes(fs, next) ==
    IF fs = <<>> THEN <<>>
    ELSE client_frame(fs[1].op, frame_key(fs[1]), frame_payload(fs[1], next))
         \o script_bytes(Tail(fs), next + fs[1].len)

\* The plaintext payload bytes of the data frames of a script
RECURSIVE script_plain(_, _)
script_plain(fs, next) ==
    IF fs = <<>> THEN <<>>
    ELSE (IF is_control(fs[1].op) THEN <<>>
          ELSE frame_payload(fs[1], next))
         \o script_plain(Tail(fs), next + fs[1].len)

F(op, len) == [op |-> op, len |-> len, code |-> 1000]

\* A frame masked with the key key
FK(op, len, key) == [op |-> op, len |-> len, code |-> 1000, key |-> key]

\* A Close frame with the status code code
FC(code, len) == [op |-> ConnectionClose, len |-> len, code |-> code]

\* The frames of the clients of Spec: a Ping with one byte, a Close with a
\* status code
Menu == {F(Ping, 1), F(ConnectionClose, 2)}

----------------------------------------------------------------------------
\* State, initial states and actions

\* The closing handshake is complete: the client's Close was received and the
\* proxy's Close was wholly encoded
close_started(s) ==
    \E i \in 1..Len(s.log) : s.log[i].ev = "tx" /\ s.log[i].op = ConnectionClose
handshake_closed(s) ==
    /\ s.closing.client_closed \/ s.closing = Closed
    /\ close_started(s)
    /\ encoder_is_idle(s.frame_encoder)

\* The size of ws_rbuf (channel.rs:45): BUF_SIZE unless the channel is given
\* another
ws_rbuf_size ==
    IF given # None /\ "ws_rbuf_size" \in DOMAIN given[1] THEN given[1].ws_rbuf_size
    ELSE BUF_SIZE

Cur ==
    [ws_rbuf |-> ws_rbuf, ws_rbuf_size |-> ws_rbuf_size, ws_wbuf |-> ws_wbuf, real_stream |-> real_stream,
     real_stream_rstate |-> real_stream_rstate,
     real_stream_wstate |-> real_stream_wstate,
     handshake |-> handshake, closing |-> closing, pending_pong |-> pending_pong,
     pending_close |-> pending_close, frame_decoder |-> frame_decoder,
     frame_encoder |-> frame_encoder, status |-> status, cli_out |-> cli_out,
     cli_req |-> cli_req, sock_out |-> sock_out, up_read |-> up_read,
     up_left |-> up_left, up_out |-> up_out, connects |-> connects, resp |-> resp,
     log |-> log, audit |-> audit, ret |-> "Ok"]

\* ProxyChannel::new (channel.rs:39-58), for a client that sends request and
\* then the frames of script and a server that sends upstream bytes
InitChannel(request, script, upstream) ==
    /\ ws_rbuf = NewBuf
    /\ ws_wbuf = NewBuf
    /\ real_stream = FALSE
    /\ real_stream_rstate = "Normal"
    /\ real_stream_wstate = "Normal"
    /\ handshake = Handshake_new
    /\ closing = NotYet
    /\ pending_pong = None
    /\ pending_close = None
    /\ frame_decoder = FrameDecoder_default
    /\ frame_encoder = FrameEncoder_default
    /\ status = "Running"
    /\ cli_req = request
    /\ cli_out = request_bytes(request) \o script_bytes(script, FirstByte)
    /\ sock_out = <<>>
    /\ up_read = 0
    /\ up_left = upstream
    /\ up_out = <<>>
    /\ connects = 0
    /\ resp = 0
    /\ log = <<>>
    /\ plain = script_plain(script, FirstByte)
    /\ grace = 0

\* The same, with a log that does not keep the closing events
InitWith(request, script, upstream) ==
    /\ InitChannel(request, script, upstream)
    /\ audit = FALSE
    /\ given = None

Init == \E script \in Scripts(Menu, MaxFrames) : InitWith(GoodRequest, script, MaxUpBytes)

InitHandshake == \E request \in Requests : InitWith(request, <<>>, MaxUpBytes)

\* One iteration of the loop of ProxyChannel::poll
PollLoop ==
    /\ status = "Running"
    /\ \E t \in poll_ws_io(Cur) :
        /\ ws_rbuf' = t.ws_rbuf
        /\ ws_wbuf' = t.ws_wbuf
        /\ real_stream' = t.real_stream
        /\ real_stream_rstate' = t.real_stream_rstate
        /\ real_stream_wstate' = t.real_stream_wstate
        /\ handshake' = t.handshake
        /\ closing' = t.closing
        /\ pending_pong' = t.pending_pong
        /\ pending_close' = t.pending_close
        /\ frame_decoder' = t.frame_decoder
        /\ frame_encoder' = t.frame_encoder
        /\ status' = t.status
        /\ cli_out' = t.cli_out
        /\ sock_out' = t.sock_out
        /\ up_read' = t.up_read
        /\ up_left' = t.up_left
        /\ up_out' = t.up_out
        /\ connects' = t.connects
        /\ resp' = t.resp
        /\ log' = t.log
    /\ grace' = IF handshake_closed(Cur) THEN Min(grace + 1, MaxGrace) ELSE grace
    /\ UNCHANGED <<cli_req, plain, audit, given>>

\* The task is woken and polled again
Wake ==
    /\ status = "Pending"
    /\ status' = "Running"
    /\ UNCHANGED <<ws_rbuf, ws_wbuf, real_stream, real_stream_rstate,
                   real_stream_wstate, handshake, closing, pending_pong, pending_close,
                   frame_decoder, frame_encoder, cli_req, cli_out, sock_out, up_read,
                   up_left, up_out, connects, resp, log, audit, plain, grace, given>>

\* Clients that send data frames, one longer than the drain buffer, and a
\* Ping, each at most once and in any order, and a server that sends nothing
DataMenu == {F(BinaryFrame, BUF_SIZE + 1), F(TextFrame, 1), F(ContinuationFrame, 1),
             F(Ping, 1)}

InitData ==
    \E script \in DistinctScripts(DataMenu, MaxFrames) : InitWith(GoodRequest, script, 0)

\* Clients that send at most one control frame, and a server that sends
\* MaxUpData bytes
UpMenu == {F(Ping, 1), F(ConnectionClose, 2)}

InitUp == \E script \in Scripts(UpMenu, 1) : InitWith(GoodRequest, script, MaxUpData)

\* An opcode that Opcode::from_u8 does not know
UnknownOpcode == 3

\* The status code of the Close frames of the clients of SpecClose
ClientCode == 3000

\* Clients that send, each at most once and in any order: a Close with the
\* status ClientCode, a Close with the status 1000, a Close whose payload is
\* too short for a status code, a frame with an unknown opcode, a Binary
\* frame; a server that sends nothing.  The log keeps the closing events.
CloseMenu == {FC(ClientCode, 2), F(ConnectionClose, 2), F(ConnectionClose, 1),
              F(UnknownOpcode, 1), F(BinaryFrame, 1)}

InitClose ==
    /\ \E script \in DistinctScripts(CloseMenu, MaxFrames) :
          InitChannel(GoodRequest, script, 0)
    /\ audit = TRUE
    /\ given = None

\* Clients that send, each at most once and in any order and masked with
\* one of two keys: a Binary frame of MaskedLen bytes, longer than a masking
\* key and than the drain buffer, a Ping that fills the drain buffer, a
\* Close; a server that sends nothing.
MaskedLen == 5

OtherKey == <<255, 0, 128, 1>>

MaskMenu == {FK(BinaryFrame, MaskedLen, OtherKey), FK(Ping, BUF_SIZE, MaskKey),
             FK(ConnectionClose, 2, OtherKey)}

InitMask ==
    /\ \E script \in DistinctScripts(MaskMenu, MaxFrames) :
          InitChannel(GoodRequest, script, 0)
    /\ audit = TRUE
    /\ given = None

\* The keys of the clients of SpecAccept: the key of RFC 6455 section 1.3,
\* another 16-byte nonce, the empty key, keys of 1 and 40 characters
AcceptKeys ==
    {"dGhlIHNhbXBsZSBub25jZQ==",
     "x3JJHMbDL1EzLkh9GBhXDw==",
     "",
     "a",
     "AQIDBAUGBwgJCgsMDQ4PEA==",
     "0123456789012345678901234567890123456789"}

\* Their requests: one key field, or two of them
AcceptRequests ==
    {[malformed |-> FALSE, method |-> "GET", version |-> "HTTP/1.1",
      fields |-> <<Field("Upgrade", "websocket"), Field("Connection", "Upgrade")>>
                 \o k \o <<Field("Sec-WebSocket-Version", "13")>>] :
        k \in {<<Field("Sec-WebSocket-Key", k1)>> : k1 \in AcceptKeys}
              \cup {<<Field("sec-websocket-key", k1), Field("Sec-WebSocket-Key", k2)>> :
                       k1 \in AcceptKeys, k2 \in AcceptKeys}}

\* Clients that send at most one frame, a Binary frame, a Ping or a Close,
\* right after the request, and a server that sends MaxUpBytes bytes.  The
\* log keeps the closing events.
EarlyMenu == {F(BinaryFrame, 1), F(Ping, 1), F(ConnectionClose, 2)}

InitEarly ==
    /\ \E script \in Scripts(EarlyMenu, 1) : InitChannel(GoodRequest, script, MaxUpBytes)
    /\ audit = TRUE
    /\ given = None

\* Clients that send, each at most once and in any order: a Ping, a Pong, a
\* Binary frame, a Close; a server that sends nothing.  The log keeps the
\* closing events and the frames left without effect.
IgnoreMenu == {F(Ping, 1), F(Pong, 1), F(BinaryFrame, 1), F(ConnectionClose, 2)}

InitIgnore ==
    /\ \E script \in DistinctScripts(IgnoreMenu, MaxFrames) :
          InitChannel(GoodRequest, script, 0)
    /\ audit = TRUE
    /\ given = None

\* Clients that send, each at most once and in any order: a Ping that fills
\* the decoder's buffer, a Ping one byte longer, a Close; a server that
\* sends MaxUpBytes bytes.  The log keeps the closing events.
PongMenu == {F(Ping, BUF_SIZE), F(Ping, BUF_SIZE + 1), F(ConnectionClose, 2)}

InitPong ==
    /\ \E script \in DistinctScripts(PongMenu, MaxFrames) :
          InitChannel(GoodRequest, script, MaxUpBytes)
    /\ audit = TRUE
    /\ given = None

\* Size of ws_rbuf in SpecBurst: two frames of the client fit in it, so that
\* they can arrive in one read (a ws_rbuf of 4096 bytes holds hundreds)
BurstSize == 14

\* Clients that send, each at most once and in any order, a Binary frame, a
\* Ping and a Close; a server that sends nothing.  The log keeps the closing
\* events.
BurstMenu == {F(BinaryFrame, 1), F(Ping, 1), F(ConnectionClose, 2)}

InitBurst ==
    /\ \E script \in DistinctScripts(BurstMenu, MaxFrames) :
          InitChannel(GoodRequest, script, 0)
    /\ audit = TRUE
    /\ given = Some([ws_rbuf_size |-> BurstSize])

\* A request given to the handshake on its own
InitAccept ==
    /\ InitChannel(GoodRequest, <<>>, 0)
    /\ audit = FALSE
    /\ \E request \in AcceptRequests :
          given = Some([request |-> request, key |-> None, fields |-> None])

\* channel.rs:81: handle_handshake_request on the request decoded
HandleHandshakeRequest ==
    /\ given # None /\ given[1].key = None
    /\ handle_handshake_request(given[1].request).ok
    /\ given' = Some([given[1] EXCEPT
                         !.key = handle_handshake_request(given[1].request).key])
    /\ UNCHANGED <<ws_rbuf, ws_wbuf, real_stream, real_stream_rstate,
                   real_stream_wstate, handshake, closing, pending_pong, pending_close,
                   frame_decoder, frame_encoder, status, cli_req, cli_out, sock_out,
                   up_read, up_left, up_out, connects, resp, log, audit, plain, grace>>

\* channel.rs:115: response_accepted on the key captured
ResponseAccepted ==
    /\ given # None /\ given[1].key # None /\ given[1].fields = None
    /\ given' = Some([given[1] EXCEPT !.fields = Some(accepted_fields(given[1].key[1]))])
    /\ UNCHANGED <<ws_rbuf, ws_wbuf, real_stream, real_stream_rstate,
                   real_stream_wstate, handshake, closing, pending_pong, pending_close,
                   frame_decoder, frame_encoder, status, cli_req, cli_out, sock_out,
                   up_read, up_left, up_out, connects, resp, log, audit, plain, grace>>

\* The frames given to FrameDecoder on its own: every 4-bit value as the
\* opcode, without and with a mask key, an empty payload and one that fills
\* the drain buffer
Nibbles == 0..15

OpcodeLengths == {0, BUF_SIZE}

\* The bytes of a frame on the wire, masked or not
frame_on_wire(opcode, mask, payload) ==
    IF mask = None THEN <<FIN_FLAG + opcode, Len(payload)>> \o payload
    ELSE client_frame(opcode, mask[1], payload)

InitOpcode ==
    /\ InitChannel(GoodRequest, <<>>, 0)
    /\ audit = FALSE
    /\ \E nibble \in Nibbles, mask \in {None, Some(MaskKey)}, len \in OpcodeLengths :
          LET payload == client_payload(nibble, len, FirstByte)
          IN  given = Some([nibble |-> nibble, mask |-> mask, payload |-> payload,
                            bytes |-> frame_on_wire(nibble, mask, payload),
                            consumed |-> 0, calls |-> 0, ok |-> "Ok", item |-> None])

\* One call of FrameDecoder::decode on the next k bytes
DecodeFrame ==
    /\ given # None /\ given[1].ok = "Ok" /\ given[1].item = None
    /\ ~payload_is_idle(frame_decoder.payload)
    /\ \E k \in 1..Len(given[1].bytes) :
          \E r \in frame_decode(frame_decoder, Take(given[1].bytes, k)) :
              /\ frame_decoder' = r.d
              /\ given' = Some([given[1] EXCEPT !.bytes = Drop(@, r.n),
                                                !.consumed = @ + r.n,
                                                !.calls = @ + 1,
                                                !.ok = r.ok])
    /\ UNCHANGED <<ws_rbuf, ws_wbuf, real_stream, real_stream_rstate,
                   real_stream_wstate, handshake, closing, pending_pong, pending_close,
                   frame_encoder, status, cli_req, cli_out, sock_out, up_read,
                   up_left, up_out, connects, resp, log, audit, plain, grace>>

\* FrameDecoder::write_decoded_data when the writer takes some bytes
WriteDecoded ==
    /\ given # None /\ given[1].ok = "Ok" /\ given[1].item = None
    /\ ~is_data_empty(frame_decoder)
    /\ \E t \in write_decoded_data(Cur) :
          /\ t.ret = "Normal"
          /\ frame_decoder' = t.frame_decoder
          /\ up_out' = t.up_out
    /\ UNCHANGED <<ws_rbuf, ws_wbuf, real_stream, real_stream_rstate,
                   real_stream_wstate, handshake, closing, pending_pong, pending_close,
                   frame_encoder, status, cli_req, cli_out, sock_out, up_read,
                   up_left, connects, resp, log, audit, plain, grace, given>>

\* FrameDecoder::finish_decoding once the decoder is idle
FinishFrame ==
    /\ given # None /\ given[1].ok = "Ok" /\ given[1].item = None
    /\ payload_is_idle(frame_decoder.payload)
    /\ LET f == payload_finish(frame_decoder.payload)
       IN  /\ frame_decoder' = [frame_decoder EXCEPT !.payload = f.p]
           /\ given' = Some(IF f.ok THEN [given[1] EXCEPT !.item = Some(f.frame)]
                            ELSE [given[1] EXCEPT !.ok = "FinishErr"])
    /\ UNCHANGED <<ws_rbuf, ws_wbuf, real_stream, real_stream_rstate,
                   real_stream_wstate, handshake, closing, pending_pong, pending_close,
                   frame_encoder, status, cli_req, cli_out, sock_out, up_read,
                   up_left, up_out, connects, resp, log, audit, plain, grace>>

NextOpcode == DecodeFrame \/ WriteDecoded \/ FinishFrame

NextAccept == HandleHandshakeRequest \/ ResponseAccepted

\* The frame headers given to FrameHeaderDecoder on its own: every opcode,
\* without and with a mask key, and the payload lengths at the edges of the
\* three forms of the length field (the last is the largest length that the
\* integers of the model hold; it takes the 8-byte form)
HeaderLengths == {0, 125, 126, 127, 65535, 65536, 2147483647}

HeaderMasks == {None, Some(MaskKey), Some(OtherKey)}

\* The bytes that follow the header on the wire
Trailer == <<FirstByte, FirstByte + 1>>

\* The header of a frame on the wire: the bytes start_encoding_header builds
\* and, for a masked frame, the mask bit and the masking key after the length
\* (RFC 6455 section 5.2)
wire_header(opcode, mask, payload_len) ==
    LET h == header_bytes(opcode, payload_len)
    IN  IF mask = None THEN h
        ELSE <<h[1], MASK_FLAG + h[2]>> \o SubSeq(h, 3, Len(h)) \o mask[1]

InitHeader ==
    /\ InitChannel(GoodRequest, <<>>, 0)
    /\ audit = FALSE
    /\ \E opcode \in Opcodes, mask \in HeaderMasks, payload_len \in HeaderLengths :
          given = Some([opcode |-> opcode, mask |-> mask, payload_len |-> payload_len,
                        bytes |-> wire_header(opcode, mask, payload_len) \o Trailer,
                        consumed |-> 0, calls |-> 0, ok |-> TRUE, item |-> None])

\* One call of FrameHeaderDecoder::decode on the next k bytes
DecodeHeader ==
    /\ given # None /\ given[1].ok /\ given[1].item = None
    /\ ~frame_decoder.header.completed
    /\ \E k \in 1..Len(given[1].bytes) :
          LET r == header_decode(frame_decoder.header, Take(given[1].bytes, k))
          IN  /\ frame_decoder' = [frame_decoder EXCEPT !.header = r.d]
              /\ given' = Some([given[1] EXCEPT !.bytes = Drop(@, r.n),
                                                !.consumed = @ + r.n,
                                                !.calls = @ + 1,
                                                !.ok = r.ok])
    /\ UNCHANGED <<ws_rbuf, ws_wbuf, real_stream, real_stream_rstate,
                   real_stream_wstate, handshake, closing, pending_pong, pending_close,
                   frame_encoder, status, cli_req, cli_out, sock_out, up_read,
                   up_left, up_out, connects, resp, log, audit, plain, grace>>

\* FrameHeaderDecoder::finish_decoding once the header is complete
FinishHeader ==
    /\ given # None /\ given[1].ok /\ given[1].item = None
    /\ frame_decoder.header.completed
    /\ frame_decoder' = [frame_decoder EXCEPT !.header = header_finish(@)]
    /\ given' = Some([given[1] EXCEPT !.item = frame_decoder.header.header])
    /\ UNCHANGED <<ws_rbuf, ws_wbuf, real_stream, real_stream_rstate,
                   real_stream_wstate, handshake, closing, pending_pong, pending_close,
                   frame_encoder, status, cli_req, cli_out, sock_out, up_read,
                   up_left, up_out, connects, resp, log, audit, plain, grace>>

NextHeader == DecodeHeader \/ FinishHeader

Next == PollLoop \/ Wake

Spec == Init /\ [][Next]_vars

SpecHandshake == InitHandshake /\ [][Next]_vars

SpecData == InitData /\ [][Next]_vars

SpecUp == InitUp /\ [][Next]_vars

SpecClose == InitClose /\ [][Next]_vars

SpecHeader == InitHeader /\ [][NextHeader]_vars

SpecMask == InitMask /\ [][Next]_vars

SpecAccept == InitAccept /\ [][NextAccept]_vars

SpecEarly == InitEarly /\ [][Next]_vars

SpecIgnore == InitIgnore /\ [][Next]_vars
SpecPong == InitPong /\ [][Next]_vars
SpecBurst == InitBurst /\ [][Next]_vars

SpecOpcode == InitOpcode /\ [][NextOpcode]_vars

----------------------------------------------------------------------------
\* What the properties below speak of

\* The bytes handed to ws_wbuf so far, in order
OutStream == sock_out \o ws_wbuf.buf

\* The frames in a stream of unmasked frames with payloads shorter than 126
\* bytes: opcode, declared length, and the payload bytes present
RECURSIVE parse_frames(_)
parse_frames(bytes) ==
    IF Len(bytes) < 2 THEN <<>>
    ELSE <<[op |-> bytes[1] % 16, len |-> bytes[2] % 128,
            data |-> SubSeq(bytes, 3, Min(2 + (bytes[2] % 128), Len(bytes)))]>>
         \o parse_frames(Drop(bytes, 2 + (bytes[2] % 128)))

\* The frames handed to ws_wbuf after the HTTP response
OutFrames == parse_frames(Drop(OutStream, RespLen))

IsBinary(f) == f.op = BinaryFrame
IsRead(e) == e.ev = "read"
IsControlEvent(e) == e.ev \in {"tx", "ping"}
IsCloseTx(e) == e.ev = "tx" /\ e.op = ConnectionClose

RECURSIVE Concat(_)
Concat(q) == IF q = <<>> THEN <<>> ELSE q[1].data \o Concat(Tail(q))

Terminated == status \in {"Ok", "Err", "Panic"}

----------------------------------------------------------------------------
\* C1: the closing state is Closed only after the proxy's own Close frame was
\* started and wholly encoded: whenever closing is Closed, pending_close is
\* None and the encoder has started a Close frame.
C1_ClosedAfterOwnClose ==
    closing = Closed => pending_close = None /\ close_started(Cur)

\* C2: after a failed handshake (response 400 or 503) the channel ends only
\* when the whole error response has been written to the client socket,
\* unless the client socket reported EOS or an I/O error.
C2_ErrorResponseFlushed ==
    (status = "Ok" /\ resp \in {400, 503} /\ ~is_ws_stream_eos(Cur))
        => sock_out = response_bytes(resp)

\* The six checks of the upgrade request, as the specification lists them
SixChecks(request) ==
    LET Values(name) == {request.fields[i].value :
                            i \in {j \in 1..Len(request.fields) :
                                      Lower(request.fields[j].name) = name}}
    IN  /\ request.method = "GET"
        /\ request.version = "HTTP/1.1"
        /\ "websocket" \in Values("upgrade")
        /\ \E v \in Values("connection") : "Upgrade" \in SplitTrim(v)
        /\ "13" \in Values("sec-websocket-version")
        /\ Values("sec-websocket-key") # {}

\* C3: a decoded upgrade request that fails one of the six checks is answered
\* with 400 and no upstream connect is started; only a request that passes
\* all six starts the connect.
C3_SixChecksOrBadRequest ==
    /\ connects > 0 => SixChecks(cli_req)
    /\ (resp # 0 /\ ~SixChecks(cli_req)) => resp = 400 /\ connects = 0

C5_FlowConservation ==
    LET reads == SelectSeq(log, IsRead)
        bins == SelectSeq(OutFrames, IsBinary)
    IN  /\ Len(bins) <= Len(reads)
        /\ Len(bins) >= Len(reads) - 1
        /\ \A i \in 1..Len(bins) :
              /\ bins[i].len = Len(reads[i].data)
              /\ bins[i].len \in 1..BUF_SIZE
              /\ IsPrefix(bins[i].data, reads[i].data)
              /\ i < Len(bins) => bins[i].data = reads[i].data
        /\ Concat(reads) = [i \in 1..up_read |-> i]
        /\ IsPrefix(Concat(bins), [i \in 1..up_read |-> i])

C5_Witness ==
    LET bins == SelectSeq(OutFrames, IsBinary)
    IN  /\ Len(bins) = 2
        /\ Len(OutFrames) = 3
        /\ Concat(bins) = <<1, 2, 3>>
        /\ ws_wbuf.buf = <<>>

\* C6: reverse-flow conservation, client to upstream.  The bytes written to
\* upstream are a prefix of the plaintext payloads of the client's data
\* frames, concatenated in the order sent.
C6_ReverseFlowConservation == IsPrefix(up_out, plain)

C6_Witness == up_out = plain /\ Len(plain) > BUF_SIZE + 1

\* C7 as stated: after a Ping{D} is accepted, the next control frame the
\* proxy starts is Pong{D}, whatever arrives in between.
C7_PongIdentity ==
    LET ctl == SelectSeq(log, IsControlEvent)
    IN  \A i \in 1..Len(ctl) : \A j \in (i + 1)..Len(ctl) :
            (/\ ctl[i].ev = "ping"
             /\ ctl[j].ev = "tx"
             /\ \A k \in (i + 1)..(j - 1) : ctl[k].ev # "tx")
            => ctl[j].op = Pong /\ ctl[j].data = ctl[i].data

\* C7 amended: the next control frame the proxy starts after a Ping is
\* accepted is a Pong with the data of the latest Ping accepted before it.
C7_PongOfLatestPing ==
    LET ctl == SelectSeq(log, IsControlEvent)
    IN  \A i \in 1..(Len(ctl) - 1) :
            (ctl[i].ev = "ping" /\ ctl[i + 1].ev = "tx")
            => ctl[i + 1].op = Pong /\ ctl[i + 1].data = ctl[i].data

C7_Witness ==
    LET ctl == SelectSeq(log, IsControlEvent)
    IN  /\ Len(ctl) = 3
        /\ ctl[1].ev = "ping" /\ ctl[2].ev = "ping" /\ ctl[3].ev = "tx"
        /\ ctl[3].data = ctl[2].data /\ ctl[3].data # ctl[1].data

\* C8: at most one Close frame is ever started by the channel: pending_close
\* is set at most once and taken at most once.
C8_AtMostOneClose ==
    Len(SelectSeq(log, IsCloseTx)) + (IF pending_close # None THEN 1 ELSE 0) <= 1

\* A second attempt to start closing was refused after the Close was started
C8_Witness ==
    /\ Len(SelectSeq(log, IsCloseTx)) = 1
    /\ pending_close = None
    /\ \E i \in 1..Len(log) : log[i].ev = "refused"

\* C9: once the client's Close was received and the proxy's Close wholly
\* encoded, the driver never returns Pending and the channel ends within two
\* more iterations of the loop.
C9_ClosingLiveness ==
    /\ grace <= 2
    /\ handshake_closed(Cur) => status # "Pending"
    /\ (handshake_closed(Cur) /\ grace = 2) => Terminated

C9_Witness == grace = 2 /\ status = "Ok" /\ closing = Closed /\ close_started(Cur)

\* C10: when the channel ends because closing is Closed, every byte of the
\* proxy's Close frame has been written to the client socket.
C10_CloseFlushed ==
    (status = "Ok" /\ closing = Closed /\ close_started(Cur)
     /\ ~is_ws_stream_eos(Cur))
        => ws_wbuf.buf = <<>>

IsClosing(e) == e.ev = "closing"

\* The positions of log before i at which closing was started
ClosingBefore(i) == {j \in 1..(i - 1) : log[j].ev = "closing"}

\* C11: Close echo.  A Close{code, reason} received while closing is NotYet
\* starts closing with the same code and client_closed = true: the Close
\* queued carries that code and an empty reason and the upstream socket is
\* dropped.  One received while closing is InProgress only sets client_closed:
\* closing is started at most once and the Close queued is left as it was.
\* (Until the Close queued is started, closing is InProgress with client_closed
\* = true, or Closed after a later iteration.)
C11_CloseEcho ==
    /\ Len(SelectSeq(log, IsClosing)) <= 1
    /\ \A i \in 1..Len(log) :
          (log[i].ev = "rxclose" /\ ClosingBefore(i) = {}) =>
              /\ i < Len(log)
              /\ log[i + 1] = [ev |-> "closing", op |-> log[i].op, data |-> <<1>>]
              /\ Len(log) = i + 1 =>
                    /\ pending_close = Some(Frame("Close", log[i].op, <<>>))
                    /\ closing \in {InProgress(TRUE), Closed}
                    /\ ~real_stream
    /\ \A i \in 1..Len(log) :
          (log[i].ev = "rxclose" /\ ClosingBefore(i) # {} /\ Len(log) = i) =>
              /\ closing \in {InProgress(TRUE), Closed}
              /\ pending_close # None =>
                    \E j \in ClosingBefore(i) :
                        pending_close = Some(Frame("Close", log[j].op, <<>>))
    /\ \A i \in 1..Len(log) :
          IsCloseTx(log[i]) =>
              \E j \in ClosingBefore(i) : log[i].data = write_be(log[j].op, 2)

\* The client's Close was answered with its status code, and the channel closed
C11_Witness ==
    /\ \E i \in 1..Len(log) : IsCloseTx(log[i]) /\ log[i].data = write_be(ClientCode, 2)
    /\ closing = Closed
    /\ status = "Ok"

\* The event of log that tells closing was started by the proxy with code
ProxyClosing(code) == [ev |-> "closing", op |-> code, data |-> <<0>>]

\* C12: the proxy's own close codes.  While closing is NotYet: an error of
\* handle_real_stream starts closing with 1001, an error of handle_ws_stream
\* with 1002, and an upstream read or write that reported EOS with 1000 (unless
\* the same iteration then started closing for a WebSocket error or a Close of
\* the client); each with client_closed = false and a Close with an empty
\* reason queued.  The proxy starts closing with no other code and for no
\* other cause.
C12_ProxyCloseCodes ==
    /\ \A i \in 1..Len(log) :
          (log[i].ev = "closing" /\ log[i].data = <<0>>) =>
              /\ log[i].op \in {1000, 1001, 1002}
              /\ log[i].op = 1001 => i > 1 /\ log[i - 1].ev = "uperr"
              /\ log[i].op = 1002 => i > 1 /\ log[i - 1].ev = "wserr"
              /\ log[i].op = 1000 => \E j \in 1..(i - 1) : log[j].ev = "eos"
              /\ Len(log) = i =>
                    /\ pending_close = Some(Frame("Close", log[i].op, <<>>))
                    /\ closing = InProgress(FALSE)
    /\ \A j \in 1..Len(log) :
          (log[j].ev = "uperr" /\ ClosingBefore(j) = {}) =>
              j < Len(log) /\ log[j + 1] = ProxyClosing(1001)
    /\ \A j \in 1..Len(log) :
          (log[j].ev = "wserr" /\ ClosingBefore(j) = {}) =>
              j < Len(log) /\ log[j + 1] = ProxyClosing(1002)
    /\ \A j \in 1..Len(log) :
          (log[j].ev = "eos" /\ ClosingBefore(j) = {}) =>
              \E k \in (j + 1)..Len(log) :
                  /\ log[k].ev = "closing"
                  /\ log[k] = ProxyClosing(1000) \/ log[k - 1].ev \in {"wserr", "rxclose"}

\* Upstream reported EOS, and the Close with 1000 was written to the client
C12_Witness ==
    /\ \E i \in 1..Len(log) : log[i] = ProxyClosing(1000)
    /\ \E i \in 1..Len(log) : IsCloseTx(log[i]) /\ log[i].data = write_be(1000, 2)
    /\ closing = InProgress(FALSE)
    /\ ws_wbuf.buf = <<>>

\* ------------------------------------------------------------------------
\* C13.  A relay-stage error on the WebSocket side is never escalated as a
\* task error: whatever the closing state, the error is followed at once by
\* the start of a close with code 1002, started by the proxy (a refused
\* start is a failed assertion, which ends the task with an error).
IsWsError(e) == e.ev = "wserr"

C13_WsErrorNeverEscalates ==
    \A i \in 1..Len(log) :
        IsWsError(log[i]) =>
            /\ i < Len(log)
            /\ log[i + 1] = ProxyClosing(1002)

\* ------------------------------------------------------------------------
\* C14.  WebSocket EOS terminates Ok.  As claimed: in every channel state,
\* an iteration in which the fill of ws_rbuf or the flush of ws_wbuf reports
\* EOS ends with Ok and leaves the handshake, the codecs, the closing state
\* and the upstream side as they were.
WsEosReported == ws_rbuf'.st = "Eos" \/ ws_wbuf'.st = "Eos"

NothingAdvanced ==
    UNCHANGED <<handshake, frame_decoder, frame_encoder, closing, pending_pong,
                pending_close, real_stream, real_stream_rstate, real_stream_wstate,
                up_read, up_left, up_out, connects, resp>>

C14_EosTerminatesOk ==
    [][WsEosReported => status' = "Ok" /\ NothingAdvanced]_vars

\* The fill and the flush both run before the test for EOS, and an I/O error
\* of either is returned first: a fill that reports EOS followed by a flush
\* that fails ends the task with an error.  In every other case the
\* iteration ends with Ok, and in all cases nothing has advanced.
IoErrorReturned == log' # log /\ log'[Len(log')].ev = "ioerr"

C14_EosTerminatesOkUnlessIoError ==
    [][WsEosReported =>
          /\ NothingAdvanced
          /\ IF IoErrorReturned THEN status' = "Err" /\ ws_wbuf'.st # "Eos"
             ELSE status' = "Ok" /\ log' = log]_vars

C14_Witness ==
    /\ status = "Ok"
    /\ ws_rbuf.st = "Eos" \/ ws_wbuf.st = "Eos"
    /\ closing.tag = "InProgress"
    /\ ~encoder_is_idle(frame_encoder)

\* ------------------------------------------------------------------------
\* C15.  The driver never spins: an iteration of the loop that transfers no
\* byte and changes no state (the buffers, the stream states, the
\* handshake, the closing state, the codecs all stay as they were) ends by
\* returning Pending, never by entering the loop again.
SpinningIteration(s, t) == s.status = "Running" /\ [t EXCEPT !.ret = s.ret] = s

C15_NeverSpins == \A t \in poll_ws_io(Cur) : ~SpinningIteration(Cur, t)

\* ------------------------------------------------------------------------
\* C16.  Every frame the proxy writes toward the client is unmasked, has
\* fin = 1, has the opcode Binary, Close or Pong, and has a payload no longer
\* than the staging buffer; its header is 2 bytes long for a payload shorter
\* than 126 bytes and 4 bytes long for 126..=4096 bytes.

\* The size of the staging buffer of the encoder (frame.rs:14)
StagingSize == 4096

\* The frames of a byte stream as a receiver reads them (RFC 6455, 5.2): the
\* fin and mask bits, the opcode, the header length and the payload length
\* (-1 while the header is incomplete)
RECURSIVE wire_frames(_)
wire_frames(bytes) ==
    IF Len(bytes) < 2 THEN <<>>
    ELSE LET len7 == bytes[2] % 128
             ext == IF len7 = 126 THEN 2 ELSE IF len7 = 127 THEN 8 ELSE 0
             masked == bytes[2] \div MASK_FLAG = 1
             hlen == 2 + ext + (IF masked THEN 4 ELSE 0)
             plen == IF ext = 0 THEN len7 ELSE read_be(SubSeq(bytes, 3, 2 + ext))
             head == [fin |-> bytes[1] \div FIN_FLAG = 1, rsv |-> (bytes[1] \div 16) % 8,
                      op |-> bytes[1] % 16, masked |-> masked, hlen |-> hlen]
         IN  IF Len(bytes) < hlen
             THEN <<[fin |-> head.fin, rsv |-> head.rsv, op |-> head.op,
                     masked |-> masked, hlen |-> hlen, len |-> -1]>>
             ELSE <<[fin |-> head.fin, rsv |-> head.rsv, op |-> head.op,
                     masked |-> masked, hlen |-> hlen, len |-> plen]>>
                  \o wire_frames(Drop(bytes, hlen + plen))

WireFrames == wire_frames(Drop(OutStream, RespLen))

OutboundOpcodes == {BinaryFrame, ConnectionClose, Pong}

\* start_encoding_header on every opcode the proxy sends and every payload
\* length the staging buffer allows
HeaderLengthLaw ==
    \A opcode \in OutboundOpcodes : \A n \in 0..StagingSize :
        LET h == header_bytes(opcode, n)
        IN  /\ Len(h) = IF n < 126 THEN 2 ELSE 4
            /\ h[1] = FIN_FLAG + opcode
            /\ h[2] < MASK_FLAG
            /\ wire_frames(h)[1] = [fin |-> TRUE, rsv |-> 0, op |-> opcode,
                                    masked |-> FALSE, hlen |-> Len(h), len |-> n]

C16_OutboundFrameShape ==
    /\ HeaderLengthLaw
    /\ resp = 101 =>
          \A i \in 1..Len(WireFrames) :
              LET f == WireFrames[i]
              IN  /\ f.fin /\ f.rsv = 0 /\ ~f.masked
                  /\ f.op \in OutboundOpcodes
                  /\ f.hlen = 2
                  /\ f.len \in 0..BUF_SIZE

C16_Witness ==
    /\ resp = 101
    /\ {WireFrames[i].op : i \in 1..Len(WireFrames)} = OutboundOpcodes
    /\ \E i \in 1..Len(WireFrames) : WireFrames[i].len = BUF_SIZE
    /\ Len(WireFrames) = 3
    /\ Len(OutStream) = RespLen + 6 + WireFrames[1].len + WireFrames[2].len
                        + WireFrames[3].len

\* ------------------------------------------------------------------------
\* C17.  Outbound frame atomicity: the bytes handed to ws_wbuf are the 101
\* response followed by whole frames, one for each upstream read and each
\* Pong or Close started, in the order in which they were started; only the
\* last of them may be incomplete, and what is missing of it is what the
\* encoder still holds.  So no frame starts inside another one.
IsStarted(e) == e.ev \in {"read", "tx"}

\* The frame the encoder was given at this event
FrameBytes(e) ==
    header_bytes(IF e.ev = "read" THEN BinaryFrame ELSE e.op, Len(e.data)) \o e.data

RECURSIVE StartedBytes(_)
StartedBytes(q) == IF q = <<>> THEN <<>> ELSE FrameBytes(q[1]) \o StartedBytes(Tail(q))

\* The bytes of the current frame that FrameEncoder::encode has yet to emit
EncoderRest(e) == e.header.rest \o SubSeq(e.payload, e.payload_offset + 1, e.payload_length)

C17_FrameAtomicity ==
    resp = 101 /\ handshake.tag = "Done" =>
        /\ Take(OutStream, RespLen) = response_bytes(101)
        /\ Drop(OutStream, RespLen) \o EncoderRest(frame_encoder)
               = StartedBytes(SelectSeq(log, IsStarted))

\* A Pong or a Close is pending while the encoder is in the middle of a
\* Binary frame, part of whose payload was handed over and the socket would
\* block
C17_Witness ==
    /\ resp = 101 /\ handshake.tag = "Done"
    /\ pending_close # None \/ pending_pong # None
    /\ frame_encoder.payload_offset > 0
    /\ log[Len(log)].ev = "read"
    /\ ws_wbuf.st = "WouldBlock"

\* ------------------------------------------------------------------------
\* C18.  Frame header round-trip: for every opcode, without and with a mask
\* key, and every payload length of HeaderLengths, the header that
\* start_encoding_header builds decodes to the same opcode, payload length
\* and mask key, and the decoder consumes exactly 2 bytes, plus 2 or 8 for
\* an extended length, plus 4 for a mask key, however the bytes are split
\* across the calls of decode; it never fails and never takes a byte of what
\* follows the header.
HeaderSize(mask, payload_len) ==
    2 + (IF payload_len < 126 THEN 0 ELSE IF payload_len < 65536 THEN 2 ELSE 8)
      + (IF mask = None THEN 0 ELSE 4)

C18_HeaderRoundTrip ==
    given # None =>
        LET g == given[1]
        IN  /\ g.ok
            /\ g.consumed <= HeaderSize(g.mask, g.payload_len)
            /\ frame_decoder.header.completed \/ g.item # None =>
                  /\ g.consumed = HeaderSize(g.mask, g.payload_len)
                  /\ g.bytes = Trailer
            /\ g.item # None =>
                  /\ g.item[1].opcode = g.opcode
                  /\ g.item[1].payload_len = g.payload_len
                  /\ g.item[1].mask = g.mask
                  /\ g.item[1].fin_flag

\* A masked header with the 8-byte length, decoded in more than three calls
C18_Witness ==
    /\ given # None
    /\ given[1].item # None
    /\ given[1].mask = Some(MaskKey)
    /\ given[1].payload_len = 65536
    /\ given[1].calls > 3

\* ------------------------------------------------------------------------
\* C19.  Masking involution: whatever the masking key and however the bytes
\* of a masked frame are split across the calls of decode, the decoder
\* restores the plaintext.  The bytes it decoded from data frames (written
\* upstream, or still in the drain buffer) are a prefix of the plaintext
\* sent; the payload of each Ping accepted is the plaintext of that Ping;
\* the status code of each Close received is the one sent.  mask_offset
\* follows the payload across calls and is 0 again when a frame is finished.
Decoding == frame_decoder.payload.header # None

\* Decoded bytes of a data frame that wait in the drain buffer
Undrained ==
    LET p == frame_decoder.payload
    IN  IF Decoding /\ ~is_control(p.header[1].opcode)
        THEN SubSeq(p.buf, p.buf_start + 1, p.buf_end) ELSE <<>>

\* The payload bytes of a client are FirstByte, FirstByte + 1, ... in the
\* order sent
IsPlainRun(data) ==
    /\ data # <<>>
    /\ data[1] >= FirstByte
    /\ \A i \in 1..Len(data) : data[i] = data[1] + i - 1

C19_MaskingInvolution ==
    /\ IsPrefix(up_out \o Undrained, plain)
    /\ \A i \in 1..Len(log) :
          /\ log[i].ev = "ping" => Len(log[i].data) = BUF_SIZE /\ IsPlainRun(log[i].data)
          /\ log[i].ev = "rxclose" => log[i].op = 1000 /\ log[i].data = <<>>
    /\ LET p == frame_decoder.payload
       IN  IF Decoding /\ p.header[1].mask # None
           THEN p.mask_offset = p.payload_offset % 4
           ELSE p.mask_offset = 0

\* A Binary frame longer than the key was decoded through the drain buffer
\* and written upstream, and the Ping sent after it was accepted
C19_Witness ==
    /\ Len(up_out) = MaskedLen
    /\ up_out = plain
    /\ \E i \in 1..Len(log) : log[i].ev = "ping" /\ log[i].data[1] = FirstByte + MaskedLen
    /\ ~Decoding

\* ------------------------------------------------------------------------
\* C20.  Accept-hash correctness: calc_accept_hash(k) is the Base64 text of
\* the SHA-1 digest of k followed by the GUID; the key
\* dGhlIHNhbXBsZSBub25jZQ== gives s3pPLMBiTxaQ9kYGzzhZRbK+xOo=; and the 101
\* response carries, as Sec-WebSocket-Accept, exactly this value for the key
\* captured from the request, which is its last Sec-WebSocket-Key field.

\* base64(sha1(key ++ GUID)) as a reference implementation of SHA-1 and
\* Base64 gives it
ReferenceAccept(key) ==
    CASE key = "dGhlIHNhbXBsZSBub25jZQ==" ->
           as_bytes("s3pPLMBiTxaQ9kYGzzhZRbK+xOo=")
      [] key = "x3JJHMbDL1EzLkh9GBhXDw==" ->
           as_bytes("HSmrc0sMlYUkAGmm5OPpG2HaGWk=")
      [] key = "" ->
           as_bytes("Kfh9QIsMVZcl6xEPYxPHzW8SZ8w=")
      [] key = "a" ->
           as_bytes("FtgH8qqfEKHvZKEZYEWkYDhlXNY=")
      [] key = "AQIDBAUGBwgJCgsMDQ4PEA==" ->
           as_bytes("C/0nmHhBztSRGR1CwL6Tf4ZjwpY=")
      [] key = "0123456789012345678901234567890123456789" ->
           as_bytes("XmAFJRIepQoKOqPFOfF5mREBo98=")

\* The value of the last field of the request with this name
LastField(request, name) ==
    LET at == {i \in 1..Len(request.fields) : Lower(request.fields[i].name) = name}
    IN  request.fields[CHOOSE i \in at : \A j \in at : j <= i].value

C20_AcceptHash ==
    /\ calc_accept_hash("dGhlIHNhbXBsZSBub25jZQ==") = as_bytes("s3pPLMBiTxaQ9kYGzzhZRbK+xOo=")
    /\ given # None =>
          LET g == given[1]
              key == LastField(g.request, "sec-websocket-key")
          IN  /\ g.key # None => g.key = Some(key)
              /\ g.fields # None =>
                    /\ Len(g.fields[1]) = 3
                    /\ g.fields[1][3].name = "Sec-WebSocket-Accept"
                    /\ g.fields[1][3].value = ReferenceAccept(key)
                    /\ g.fields[1][3].value = calc_accept_hash(key)

\* The response for a request with two key fields, the last of them the key
\* of RFC 6455
C20_Witness ==
    /\ given # None
    /\ given[1].fields # None
    /\ Len(given[1].request.fields) = 5
    /\ given[1].request.fields[3].value # "dGhlIHNhbXBsZSBub25jZQ=="
    /\ given[1].key = Some("dGhlIHNhbXBsZSBub25jZQ==")
    /\ given[1].fields[1][3].value = as_bytes("s3pPLMBiTxaQ9kYGzzhZRbK+xOo=")

\* ------------------------------------------------------------------------
\* C21.  The handshake only moves forward along RecvRequest ->
\* ConnectToRealServer -> SendResponse -> Done (or RecvRequest -> SendResponse
\* on a bad request).  connects, resp and the "done" event of log tell which
\* arms were taken: the connect was made once on an accepted request, the
\* response is 101 exactly when the connect succeeded, and the upstream socket
\* is present only in SendResponse(succeeded) or Done.
HandshakeRank(h) ==
    CASE h.tag = "RecvRequest" -> 0
      [] h.tag = "ConnectToRealServer" -> 1
      [] h.tag = "SendResponse" -> 2
      [] h.tag = "Done" -> 3

DoneLogged == \E i \in 1..Len(log) : log[i].ev = "done"

HandshakeBeforeDone ==
    /\ handshake.tag = "RecvRequest" => connects = 0 /\ resp = 0 /\ ~real_stream
    /\ handshake.tag = "ConnectToRealServer" =>
          connects = 1 /\ resp = 0 /\ ~real_stream /\ handshake.key # None
    /\ handshake.tag = "SendResponse" =>
          /\ resp \in {101, 400, 503}
          /\ handshake.succeeded <=> resp = 101
          /\ real_stream <=> handshake.succeeded
          /\ connects = (IF resp = 400 THEN 0 ELSE 1)
          /\ ~DoneLogged
    /\ real_stream =>
          \/ handshake.tag = "SendResponse" /\ handshake.succeeded
          \/ handshake.tag = "Done"

\* Done was reached from SendResponse(succeeded) after a connect that succeeded
DoneAfterSuccess == resp = 101 /\ connects = 1 /\ DoneLogged

\* As claimed: Done only after a success
C21_HandshakeForward ==
    [][/\ HandshakeRank(handshake') >= HandshakeRank(handshake)
       /\ HandshakeBeforeDone'
       /\ handshake'.tag = "Done" => DoneAfterSuccess']_vars

\* process_handshake takes the state out with mem::replace(.., Done) and the
\* arm of a SendResponse(false) whose response is wholly encoded returns false
\* without putting a state back (channel.rs:62, 128-129): the task then ends
\* with the handshake left as Done, no connect having succeeded and no
\* upstream socket stored.  In every state of a task that has not ended that
\* way, Done is reached only after a success.
FailedHandshakeExit ==
    /\ status = "Ok"
    /\ resp \in {400, 503}
    /\ ~real_stream
    /\ ~DoneLogged
    /\ sock_out \o ws_wbuf.buf = response_bytes(resp)

C21_HandshakeForwardUnlessFailedExit ==
    [][/\ HandshakeRank(handshake') >= HandshakeRank(handshake)
       /\ HandshakeBeforeDone'
       /\ handshake'.tag = "Done" => DoneAfterSuccess' \/ FailedHandshakeExit']_vars

\* The handshake is Done with the upstream socket stored, and the relay runs
C21_Witness ==
    /\ handshake.tag = "Done"
    /\ real_stream
    /\ DoneAfterSuccess
    /\ status = "Running"
    /\ sock_out = response_bytes(101)

\* ------------------------------------------------------------------------
\* C22.  No relay before the handshake is Done: while the handshake is
\* RecvRequest, ConnectToRealServer or SendResponse (Done has not been
\* reached), the frame decoder and the frame encoder are untouched, nothing is
\* pending, no byte was read from or written to upstream, closing is NotYet,
\* only bytes of the HTTP response were handed to ws_wbuf, and the frame bytes
\* the client sent after its request are all still in ws_rbuf or unread.
IsWireByte(b) == b < 256

\* The frame bytes of the client that are in ws_rbuf or not read yet
FrameBytesHeld == SelectSeq(ws_rbuf.buf \o cli_out, IsWireByte)

NoRelayYet ==
    /\ frame_decoder = FrameDecoder_default
    /\ frame_encoder = FrameEncoder_default
    /\ pending_pong = None
    /\ pending_close = None
    /\ closing = NotYet
    /\ up_read = 0
    /\ up_out = <<>>
    /\ real_stream_rstate = "Normal"
    /\ real_stream_wstate = "Normal"
    /\ \A i \in 1..Len(log) : log[i].ev = "ioerr"
    /\ IF resp = 0 THEN OutStream = <<>> ELSE IsPrefix(OutStream, response_bytes(resp))

C22_NoRelayBeforeDone ==
    [][(handshake'.tag # "Done" \/ ~DoneLogged') =>
          /\ NoRelayYet'
          /\ FrameBytesHeld' = FrameBytesHeld]_vars

\* The connect is pending or the response is being sent while ws_rbuf is
\* full of the frame bytes that followed the request
C22_Witness ==
    /\ handshake.tag \in {"ConnectToRealServer", "SendResponse"}
    /\ Len(ws_rbuf.buf) = BUF_SIZE
    /\ \A i \in 1..Len(ws_rbuf.buf) : IsWireByte(ws_rbuf.buf[i])
    /\ status = "Running"

\* ------------------------------------------------------------------------
\* C23.  The precondition of starts_closing holds at every call: it is
\* called only while closing is NotYet, so its assertion never fails (log
\* never tells that a start of closing was refused) and the task never ends
\* with an error after one.
IsRefused(e) == e.ev = "refused"

ClosingRank(c) ==
    CASE c.tag = "NotYet" -> 0
      [] c.tag = "InProgress" -> IF c.client_closed THEN 2 ELSE 1
      [] c.tag = "Closed" -> 3

UpstreamGone ==
    ~real_stream /\ real_stream_rstate = "Eos" /\ real_stream_wstate = "Eos"

NoReadAfterClosing ==
    \A i \in 1..Len(log) : log[i].ev = "read" => ClosingBefore(i) = {}

C24_UpstreamGoneOnceClosing ==
    [][/\ closing' # NotYet => UpstreamGone' /\ NoReadAfterClosing'
       /\ closing # NotYet => UNCHANGED <<up_read, up_left, up_out>>
       /\ ClosingRank(closing') >= ClosingRank(closing)]_vars

\* Closing was started with upstream bytes still to read, and the client's
\* data received since then waits in the drain buffer
C24_Witness ==
    /\ closing # NotYet
    /\ UpstreamGone
    /\ up_left > 0
    /\ frame_decoder.payload.buf_start < frame_decoder.payload.buf_end
    /\ up_out = <<>>

\* ------------------------------------------------------------------------
\* C25.  handle_frame changes nothing for a Pong, for a Data frame, and for
\* a Ping received while closing is not NotYet: applied in any state of the
\* channel it returns Ok and leaves every field as it was (pending_pong,
\* pending_close, closing and the upstream states among them).  So every
\* Ping for which a Pong was queued was received before closing started, and
\* every Ping left without effect after it.
IgnoredFrames ==
    {Frame("Pong", 0, <<>>), Frame("Pong", 0, <<FirstByte>>), Frame("Data", 0, <<>>)}
    \cup (IF closing # NotYet
          THEN {Frame("Ping", 0, <<>>), Frame("Ping", 0, <<FirstByte>>)}
          ELSE {})

C25_IgnoredFramesChangeNothing ==
    /\ \A frame \in IgnoredFrames :
          LET r == handle_frame(Cur, frame)
          IN  r.ret = "Ok" /\ [r EXCEPT !.log = log] = Cur
    /\ \A i \in 1..Len(log) :
          /\ log[i].ev = "ping" => ClosingBefore(i) = {}
          /\ (log[i].ev = "ignored" /\ log[i].op = Ping) => ClosingBefore(i) # {}

\* A Ping was received after closing started and left without effect, and
\* the Close was sent with no Pong before or after it
C25_Witness ==
    /\ \E i \in 1..Len(log) : log[i].ev = "ignored" /\ log[i].op = Ping
    /\ \E i \in 1..Len(log) : IsCloseTx(log[i])
    /\ \A i \in 1..Len(log) : log[i].ev = "tx" => log[i].op = ConnectionClose
    /\ pending_pong = None
    /\ encoder_is_idle(frame_encoder)
    /\ cli_out = <<>>


\* ------------------------------------------------------------------------
\* C26.  Decoder emission rule: finish_decoding emits a Close, a Ping or a
\* Pong only when the whole payload (payload_len bytes) is in the buffer, and
\* the marker of a data frame only when the whole payload was received and
\* the drain window is empty, so that every payload byte was handed to the
\* upstream writer; is_idle is false before that.

\* The payload decoder p may emit its frame
EmissionAllowed(p) ==
    /\ p.header # None
    /\ p.payload_offset = p.header[1].payload_len
    /\ IF is_control(p.header[1].opcode)
       THEN p.buf_start = 0 /\ p.buf_end = p.header[1].payload_len
       ELSE p.buf_start = p.buf_end

\* The same of is_idle and of finish_decoding
EmitsWhenAllowed(p) ==
    /\ payload_is_idle(p) => EmissionAllowed(p)
    /\ payload_finish(p).ok => EmissionAllowed(p)

\* The marker of a data frame was emitted
DataEmitted == \E i \in 1..Len(log) : log[i].ev = "ignored" /\ log[i].op = 0

C26_DecoderEmission ==
    /\ EmitsWhenAllowed(frame_decoder.payload)
    /\ handshake.tag = "Done" =>
          \A r \in decode_from_read_buf(Cur) :
              r.ret = "Ok" => EmitsWhenAllowed(r.frame_decoder.payload)
    /\ DataEmitted => up_out = plain /\ Undrained = <<>>
    /\ \A i \in 1..Len(log) :
          /\ log[i].ev = "ping" => Len(log[i].data) = BUF_SIZE
          /\ log[i].ev = "rxclose" => log[i].data = <<>>

\* The Binary frame, longer than the drain buffer, was emitted after its
\* last byte went upstream, and a whole Ping was emitted after it
C26_Witness ==
    /\ DataEmitted
    /\ Len(up_out) = MaskedLen
    /\ \E i \in 1..Len(log) : log[i].ev = "ping" /\ Len(log[i].data) = BUF_SIZE


\* ------------------------------------------------------------------------
\* C27.  Drain-window cursors: 0 <= buf_start <= buf_end <= BUF_SIZE always;
\* write_decoded_data returns Normal without writing when is_data_empty,
\* returns WouldBlock or Eos with both cursors as they were, and after a
\* write of n > 0 bytes has advanced buf_start by exactly n, with both
\* cursors back to 0 when the window became empty; payload bytes of control
\* frames never go upstream.

\* The payload decoder holds a control frame's header
DecodingControl == Decoding /\ is_control(frame_decoder.payload.header[1].opcode)

\* r is Cur after a write of n bytes of the drain window
WroteWindow(r, n) ==
    LET p == frame_decoder.payload
        q == r.frame_decoder.payload
    IN  /\ r.up_out = up_out \o SubSeq(p.buf, p.buf_start + 1, p.buf_start + n)
        /\ IF p.buf_start + n = p.buf_end
           THEN q.buf_start = 0 /\ q.buf_end = 0
           ELSE q.buf_start = p.buf_start + n /\ q.buf_end = p.buf_end
        /\ q.payload_offset = p.payload_offset
        /\ q.header = p.header
        /\ r.frame_decoder.header = frame_decoder.header

C27_DrainWindow ==
    LET p == frame_decoder.payload
    IN  /\ 0 <= p.buf_start
        /\ p.buf_start <= p.buf_end
        /\ p.buf_end <= BUF_SIZE
        /\ Len(p.buf) = p.buf_end
        /\ IsPrefix(up_out, plain)
        /\ DecodingControl => is_data_empty(frame_decoder)
        /\ IF is_data_empty(frame_decoder)
           THEN write_decoded_data(Cur) = {[Cur EXCEPT !.ret = "Normal"]}
           ELSE \A r \in write_decoded_data(Cur) :
                   IF r.ret = "Normal"
                   THEN \E n \in 1..(p.buf_end - p.buf_start) : WroteWindow(r, n)
                   ELSE r = [Cur EXCEPT !.ret = r.ret]

\* Part of a Ping's payload waits in the buffer, after the bytes of a Binary
\* frame longer than the buffer went upstream
C27_Witness ==
    /\ DecodingControl
    /\ frame_decoder.payload.buf_end > 0
    /\ frame_decoder.payload.payload_offset < frame_decoder.payload.header[1].payload_len
    /\ Len(up_out) = MaskedLen


\* ------------------------------------------------------------------------
\* C28.  Encoder backpressure and cursors: while the encoder is not idle,
\* start_encoding_data returns Normal without reading from the upstream
\* socket, so at most one frame is staged at a time; payload_offset <=
\* payload_length <= BUF_SIZE always; encode emits all header bytes before
\* any payload byte; the encoder becomes idle exactly when the last payload
\* byte was emitted.

\* encode, given room bytes, emits the next bytes of the frame in their
\* order, header first, and leaves the encoder idle exactly when it emitted
\* the last of them
EncodesInOrder(e, room) ==
    LET r == encode(e, room)
    IN  /\ r.out = Take(EncoderRest(e), Min(room, Len(EncoderRest(e))))
        /\ EncoderRest(r.e) = Drop(EncoderRest(e), Len(r.out))
        /\ encoder_is_idle(r.e) <=> (encoder_is_idle(e) \/ r.out = EncoderRest(e))
        /\ r.e.payload_offset > 0 => r.e.header.rest = <<>>

C28_EncoderBackpressure ==
    LET e == frame_encoder
    IN  /\ 0 <= e.payload_offset
        /\ e.payload_offset <= e.payload_length
        /\ e.payload_length <= BUF_SIZE
        /\ e.payload_offset > 0 => e.header.rest = <<>>
        /\ encoder_is_idle(e) <=> EncoderRest(e) = <<>>
        /\ \A room \in 0..(Len(EncoderRest(e)) + 1) : EncodesInOrder(e, room)
        /\ ~encoder_is_idle(e) =>
              /\ start_encoding_data(Cur) = {[Cur EXCEPT !.ret = "Normal"]}
              /\ \A item \in {Frame("Pong", 0, <<>>), Frame("Close", 1000, <<>>)} :
                    start_encoding(Cur, item)
                        = [Cur EXCEPT !.log = Refused(Cur, item, 0), !.ret = "Err"]

\* The encoder holds a Binary frame of which one payload byte of two was
\* emitted, while the upstream socket is open and has more bytes to read
C28_Witness ==
    /\ handshake.tag = "Done"
    /\ real_stream
    /\ up_left > 0
    /\ frame_encoder.payload_length = BUF_SIZE
    /\ frame_encoder.payload_offset = 1
    /\ log[Len(log)].ev = "read"


\* ------------------------------------------------------------------------
\* C29.  The channel keeps the preconditions of FrameEncoder::start_encoding:
\* it calls it only when the encoder is idle, only with a Pong or a Close
\* (never a Ping or Frame::Data, so unreachable!() is never hit) and only
\* with a payload that fits the staging buffer, every Ping payload the
\* decoder emits being at most BUF_SIZE bytes long; so start_encoding never
\* fails with EncoderFull or InvalidInput.
C29_StartEncodingPreconditions ==
    /\ \A i \in 1..Len(log) :
          /\ log[i].ev # "txfail"
          /\ log[i].ev = "tx" => /\ log[i].op \in {Pong, ConnectionClose}
                                 /\ Len(log[i].data) <= BUF_SIZE
          /\ log[i].ev \in {"ping", "ignored"} => Len(log[i].data) <= BUF_SIZE
    /\ pending_pong # None => Len(pending_pong[1]) <= BUF_SIZE
    /\ pending_close # None => /\ pending_close[1].kind = "Close"
                               /\ pending_close[1].data = <<>>
    /\ handshake.tag = "Done" =>
          \A a \in handle_real_stream(Cur) :
              a.ret = "Ok" => /\ ws_start_pong(a).ret = "Ok"
                              /\ ws_start_close(ws_start_pong(a)).ret = "Ok"

\* A Pong that fills the staging buffer and then a Close were started, after
\* a Binary frame had kept the encoder busy while the Pong was pending
C29_Witness ==
    /\ \E i, j, k \in 1..Len(log) :
          /\ i < j /\ j < k
          /\ log[i].ev = "read"
          /\ log[j].ev = "tx" /\ log[j].op = Pong /\ Len(log[j].data) = BUF_SIZE
          /\ log[k].ev = "tx" /\ log[k].op = ConnectionClose
    /\ \E i, j \in 1..Len(log) :
          /\ i < j
          /\ log[i].ev = "ping"
          /\ log[j].ev = "read"


\* ------------------------------------------------------------------------
\* C30.  Opcode classification: Opcode::from_u8 gives the matching variant
\* for exactly the six values 0x0, 0x1, 0x2, 0x8, 0x9, 0xA and an
\* InvalidInput error for every other 4-bit value; is_control holds exactly
\* for Close, Ping and Pong; a frame header with an unknown opcode is
\* rejected before any payload byte is consumed.

\* The kind of the Frame that a frame with this opcode is decoded to
KindOf(nibble) ==
    CASE nibble = 8 -> "Close"
      [] nibble = 9 -> "Ping"
      [] nibble = 10 -> "Pong"
      [] OTHER -> "Data"

KnownNibbles == {0, 1, 2, 8, 9, 10}

\* The payload decoder was given nothing: no header, no byte
PayloadUntouched ==
    /\ frame_decoder.payload = FramePayloadDecoder_default
    /\ up_out = <<>>

C30_OpcodeClassification ==
    /\ from_u8(0) = ContinuationFrame /\ from_u8(1) = TextFrame
    /\ from_u8(2) = BinaryFrame /\ from_u8(8) = ConnectionClose
    /\ from_u8(9) = Ping /\ from_u8(10) = Pong
    /\ \A n \in Nibbles \ KnownNibbles : from_u8(n) = -1
    /\ \A o \in Opcodes : is_control(o) <=> o \in {ConnectionClose, Ping, Pong}
    /\ LET g == given[1]
       IN  IF g.nibble \in KnownNibbles
           THEN /\ g.ok # "Err"
                /\ g.ok = "FinishErr" => g.nibble = 8 /\ Len(g.payload) < 2
                /\ g.item # None => /\ g.item[1].kind = KindOf(g.nibble)
                                    /\ g.bytes = <<>>
                                    /\ up_out = IF g.nibble \in {8, 9, 10} THEN <<>>
                                                ELSE g.payload
           ELSE /\ PayloadUntouched
                /\ g.item = None
                /\ g.ok # "FinishErr"
                /\ g.consumed <= 1
                /\ g.ok = "Ok" => g.calls <= 1 /\ Len(frame_decoder.header.fixed) = g.consumed
                /\ Len(g.bytes) >= Len(g.payload) + (IF g.mask = None THEN 0 ELSE 4) + 1

\* A masked frame with an unknown opcode and a payload was rejected at the
\* second byte of its header, given in a second call: the masking key and
\* the payload were not taken
C30_Witness ==
    /\ given[1].nibble = UnknownOpcode
    /\ given[1].ok = "Err"
    /\ given[1].calls = 2
    /\ given[1].mask # None
    /\ Len(given[1].payload) = BUF_SIZE
    /\ Len(given[1].bytes) = BUF_SIZE + 5


\* ------------------------------------------------------------------------
\* C31.  Every frame the decoder accepts from the client is masked: a frame
\* received without the mask bit is never emitted as a Frame, and no byte
\* of its payload is forwarded to upstream.
C31_UnmaskedFrameRefused ==
    given[1].mask = None => given[1].item = None /\ up_out = <<>>


\* ------------------------------------------------------------------------
\* C32.  The driver never yields during the relay while ws_rbuf holds bytes
\* that the frame decoder can consume as things are: poll does not return
\* Pending in a state where a call of decode would take bytes from ws_rbuf.
\* So two whole frames that arrive in one read are both decoded and acted
\* on without any further byte from the client or from upstream.
DecoderCanConsume ==
    \E r \in decode_from_read_buf(Cur) : r.ret = "Ok" /\ r.ws_rbuf # ws_rbuf

\* The client has sent everything and the task sleeps, with bytes in
\* ws_rbuf that the decoder could take
C32_NoYieldWithDecodableInput ==
    status = "Pending" /\ handshake.tag = "Done" /\ cli_out = <<>> => ~DecoderCanConsume


\* ------------------------------------------------------------------------
\* C33.  Proxy-initiated closing completes: once the proxy has started
\* closing on its own (client_closed = FALSE) and dropped the upstream
\* socket, a Close of the client brings the channel to Closed, also when a
\* data frame with a payload was received before that Close: bytes of it
\* that were not delivered do not hold the decoder for ever.  Hence the
\* channel is never left with such bytes in the drain buffer, no upstream
\* socket to write them to, and the client's Close waiting in ws_rbuf.

\* The proxy started closing and dropped the upstream socket while decoded
\* bytes of a data frame wait in the drain buffer
StrandedData ==
    /\ closing = InProgress(FALSE)
    /\ ~real_stream
    /\ Undrained # <<>>

C33_ProxyClosingCompletes ==
    ~(StrandedData /\ cli_out = <<>> /\ Len(ws_rbuf.buf) = 8 /\ status = "Running")

\* Stranded bytes stay: only the end of the channel ends that state
C33_StrandedForEver ==
    [][StrandedData => StrandedData' \/ status' \in {"Ok", "Err"}]_vars


\* ------------------------------------------------------------------------
\* C34.  Every complete Close frame received from the client once the
\* handshake is Done is treated as the client's close: whatever the length
\* of its payload (0, 1, 2 or more bytes), finish_decoding emits it and
\* handle_frame leaves client_closed = TRUE; it never ends in a protocol
\* error.

\* A complete control frame was refused by finish_decoding: the header was
\* taken and the payload bytes received stay counted (frame.rs:293-298).
\* The only control frames that finish_decoding refuses are Close frames
\* with fewer than 2 payload bytes.
CloseRefused ==
    /\ frame_decoder.payload.header = None
    /\ frame_decoder.payload.payload_offset > 0
    /\ frame_decoder.payload.buf_end = frame_decoder.payload.payload_offset

C34_EveryCloseIsClientClose ==
    handshake.tag = "Done" /\ CloseRefused => closing.client_closed


\* ------------------------------------------------------------------------
\* C35.  In the payload decoder payload_offset <= header.payload_len
\* whenever a header is present, so payload_len - payload_offset never
\* underflows; payload_offset, buf_start, buf_end and mask_offset are all 0
\* whenever the header of a new frame is installed, also after
\* finish_decoding of the frame before returned an error.  FrameDecoder::decode
\* installs a header without touching the counters (frame.rs:408-411), so
\* they must be 0 whenever the channel runs on with no header present.
CountersReset ==
    LET p == frame_decoder.payload
    IN  p.payload_offset = 0 /\ p.buf_start = 0 /\ p.buf_end = 0 /\ p.mask_offset = 0

C35_PayloadCountersReset ==
    /\ Decoding =>
          frame_decoder.payload.payload_offset <= frame_decoder.payload.header[1].payload_len
    /\ status \in {"Running", "Pending"} /\ ~Decoding => CountersReset

\* A Ping with an empty payload, whenever the client sends it between two
\* frames, is decoded without an underflow of payload_len - payload_offset
C35_NextFrameDecodes ==
    status \in {"Running", "Pending"} /\ handshake.tag = "Done" /\ ~Decoding
    /\ frame_decoder.header.header = None /\ frame_decoder.header.fixed = <<>> =>
        \A r \in frame_decode(frame_decoder, client_frame(Ping, MaskKey, <<>>)) :
            r.ok = "Ok"


\* ------------------------------------------------------------------------
\* C36.  Decoder liveness for control frames: while closing is NotYet, every
\* frame of the client whose header and payload were all sent is in the end
\* emitted by finish_decoding or rejected with an error, whatever its
\* declared length, also a Ping, a Pong or a Close longer than the decoder's
\* buffer; the decoder never stays non-idle for ever with input available.
\* Hence the decoder is never left with a control frame whose payload is
\* incomplete, a full buffer, and the rest of the frame waiting in ws_rbuf.

\* The buffer is full and the control frame in it is incomplete, with input
\* available: decode copies min(.., buf.len() - buf_end) = 0 bytes
ControlFrameHeld ==
    /\ DecodingControl
    /\ frame_decoder.payload.buf_end = BUF_SIZE
    /\ frame_decoder.payload.payload_offset < frame_decoder.payload.header[1].payload_len
    /\ ws_rbuf.buf # <<>>

C36_ControlFramesDecoded ==
    ~(status = "Running" /\ closing = NotYet /\ cli_out = <<>> /\ ControlFrameHeld)

\* A control frame held stays held: only the end of the channel ends that
\* state
C36_HeldForEver ==
    [][ControlFrameHeld => ControlFrameHeld' \/ status' \in {"Ok", "Err"}]_vars

====
